---- MODULE Spec2Model ----
(***************************************************************************)
(* Stackit: the vote ledger, the acceptance protocol and the notification  *)
(* fan-out of the Q&A backend, as the route handlers and the Mongoose      *)
(* models implement them.                                                  *)
(*                                                                         *)
(* Every `await` of a handler is a point where another request may run, so *)
(* a handler is a sequence of actions, one per store round trip.  A        *)
(* Mongoose document is a private copy of the stored record; save() sends  *)
(* only the paths that were modified on the copy.  The schemas set only    *)
(* `timestamps`, so the version key __v is on: a save that $set-s a whole  *)
(* array is conditional on __v, a save that only $push-es is not.          *)
(***************************************************************************)
EXTENDS Integers, Sequences, FiniteSets, TLC

\* ---------------------------------------------------------------- bounds
MaxVersion == 3          \* array-changing saves allowed in a run
MaxNotifications == 2    \* notifications that may be persisted
MaxAnswers == 2          \* answers that may be created
MaxDeleted == 1          \* answers that may be soft-deleted
MaxEdits == 1            \* edit history entries that may be written
MaxViews == 2            \* views that may be counted
MaxQuestions == 2        \* questions that may be stored

\* ------------------------------------------------------------- constants
Null == "null"
Users == {"u1", "u2", "u3"}
Reqs == {"r1", "r2"}
Voters == {"u2", "u3"}
MissingId == "none"      \* a well-formed id that names no stored record
VoteTypes == {"upvote", "downvote", "remove", "invalid"}
ArrayPaths == {"upvotes", "downvotes", "editHistory"}

Role == [u \in Users |-> IF u = "u3" THEN "admin" ELSE "user"]
AnswerIdSeq == <<"a1", "a2", "a3", "a4", "a5">>   \* ObjectIds in creation order
MinAnswerLength == 20
MinTags == 1
MaxTags == 5
MinTagLength == 2
MaxTagLength == 20
ContentLengths == {MinAnswerLength - 1, MinAnswerLength}
Reasons == {Null, "reason"}
Titles == {Null, "t2"}                   \* req.body.title; Null: not given
Descriptions == {Null, "d2"}             \* req.body.description
TagLists == {Null, <<"Go ">>, <<"js">>}   \* req.body.tags
Contents == {"c1", "c2"}                 \* req.body.content of an answer
QuestionIdSeq == <<"q1", "q2", "q3">>    \* ObjectIds in creation order
NotificationIdSeq == <<"n1", "n2", "n3", "n4">>
ClearAll == "clear-all"                  \* a path segment that is no ObjectId
BanReasons == {"", "spam", "abuse"}      \* req.body.reason of a ban
Sorts == {"newest", "oldest", "unanswered"}   \* req.query.sort
TagQueries == {Null, "JS"}               \* req.query.tag
Pages == {1, 2}                          \* req.query.page
DefaultLimit == 10
Limits == {1, DefaultLimit}              \* req.query.limit

VARIABLES
  users,           \* the users collection: id -> record
  questions,       \* the questions collection: id -> record
  answers,         \* the answers collection: id -> record
  notifications,   \* the notifications collection, in creation order
  req,             \* per connection: the request being handled, its position
  pre,             \* sequential runs: the store when the request arrived
  last             \* sequential runs: the request handled before this one

\* What the question and answer handlers leave alone.
hist == <<users, pre, last>>

vars == <<users, questions, answers, notifications, req, pre, last>>

\* ------------------------------------------------------ Mongoose documents
NoDoc == [id |-> Null]

NoPush == [p \in ArrayPaths |-> <<>>]

\* Model.findById: a private copy of the stored record, nothing modified.
findById(coll, id) ==
  IF id \in DOMAIN coll
    THEN [id |-> id, f |-> coll[id], mod |-> {}, push |-> NoPush]
    ELSE NoDoc

\* doc.path = new Date(): never equal to the value held before.
Touch(d, path, val) ==
  [d EXCEPT !.f[path] = val, !.mod = @ \cup {path}]

\* doc.path = val: the path is marked modified when the value differs.
Set(d, path, val) ==
  IF path \in d.mod \/ d.f[path] # val
    THEN [d EXCEPT !.f[path] = val, !.mod = @ \cup {path}]
    ELSE d

\* array.push(x): a $push, unless the whole array is already being $set.
Push(d, path, x) ==
  [d EXCEPT !.f[path] = Append(@, x),
            !.push[path] = IF path \in d.mod THEN @ ELSE Append(@, x)]

\* array.filter(vote => vote.user !== userId)
RECURSIVE Filter(_, _)
Filter(s, userId) ==
  IF s = <<>> THEN <<>>
  ELSE IF Head(s) = userId THEN Filter(Tail(s), userId)
  ELSE <<Head(s)>> \o Filter(Tail(s), userId)

Some(s, userId) == \E i \in 1..Len(s) : s[i] = userId

hasUserVoted(f, userId) ==
  IF Some(f.upvotes, userId) THEN "upvote"
  ELSE IF Some(f.downvotes, userId) THEN "downvote"
  ELSE Null

voteCount(f) == Len(f.upvotes) - Len(f.downvotes)

\* Nothing is filtered out.
removeVoteNothing(d, userId) == d

\* addVote / removeVote up to the save(): the changes on the private copy.
removeVoteDoc(d, userId) ==
  LET d1 == Set(d, "upvotes", Filter(d.f.upvotes, userId))
  IN  Set(d1, "downvotes", Filter(d1.f.downvotes, userId))

\* Only the set the vote goes into is filtered.
addVoteKeepsOther(d, userId, voteType) ==
  IF voteType = "upvote"
    THEN Push(Set(d, "upvotes", Filter(d.f.upvotes, userId)), "upvotes", userId)
  ELSE IF voteType = "downvote"
    THEN Push(Set(d, "downvotes", Filter(d.f.downvotes, userId)),
              "downvotes", userId)
  ELSE removeVoteDoc(d, userId)

addVoteDoc(d, userId, voteType) ==
  LET d2 == removeVoteDoc(d, userId)
  IN  IF voteType = "upvote" THEN Push(d2, "upvotes", userId)
      ELSE IF voteType = "downvote" THEN Push(d2, "downvotes", userId)
      ELSE d2

\* save(): which arrays are $set decides the use of the version key.
VersionWhere(d) == d.mod \cap ArrayPaths # {}

VersionInc(d) == VersionWhere(d) \/ \E p \in ArrayPaths : d.push[p] # <<>>

Dirty(d) == d.mod # {} \/ \E p \in ArrayPaths : d.push[p] # <<>>

\* A save that ignores the version key.
SaveFailsUnversioned(stored, d) == FALSE

\* The update matches no document: save() rejects with a VersionError.
SaveFails(stored, d) == VersionWhere(d) /\ stored.v # d.f.v

Saved(stored, d) ==
  [p \in DOMAIN stored |->
    IF p = "v" THEN (IF VersionInc(d) THEN stored.v + 1 ELSE stored.v)
    ELSE IF p \in d.mod THEN d.f[p]
    ELSE IF p \in ArrayPaths THEN stored[p] \o d.push[p]
    ELSE stored[p]]

\* -------------------------------------------------------------- requests
\* What a read puts into its response: the questions and answers that
\* appear in it, at any depth, and the counts it reports.
NoRes == [questions |-> {}, answers |-> {}, questionCount |-> 0,
          answerCount |-> 0, acceptedCount |-> 0]

Idle ==
  [kind |-> "idle", user |-> Null, target |-> Null, arg |-> Null,
   pc |-> "idle", status |-> 0, ans |-> NoDoc, qn |-> NoDoc,
   prev |-> NoDoc, overlap |-> {}, wrote |-> FALSE, created |-> <<>>,
   res |-> NoRes, failed |-> Null]

Start(kind, user, target, arg) ==
  [Idle EXCEPT !.kind = kind, !.user = user, !.target = target, !.arg = arg]

\* res.status(code).json(...): the handler is over, its documents are gone.
Respond(q, code) ==
  [q EXCEPT !.pc = "done", !.status = code, !.ans = [id |-> q.ans.id],
            !.qn = NoDoc, !.prev = NoDoc]

InFlight(r) == req[r].pc \notin {"idle", "done"}

\* Array-changing saves done so far (the sum of the version keys) and the
\* vote requests on the way that may still add one.
Versions ==
  LET RECURSIVE Sum(_, _)
      Sum(coll, ids) ==
        IF ids = {} THEN 0
        ELSE LET id == CHOOSE x \in ids : TRUE
             IN  coll[id].v + Sum(coll, ids \ {id})
  IN  Sum(questions, DOMAIN questions) + Sum(answers, DOMAIN answers)

PendingVotes ==
  Cardinality({r \in Reqs : req[r].kind \in {"voteQuestion", "voteAnswer"}
                            /\ req[r].pc = "save"})

VoteBudget == Versions + PendingVotes < MaxVersion

NewUser(role) == [role |-> role, isBanned |-> FALSE, banReason |-> ""]

NewQuestion(author) ==
  [author |-> author, title |-> "t1", description |-> "d1",
   tags |-> <<"js">>, isEdited |-> FALSE, editHistory |-> <<>>,
   isDeleted |-> FALSE, deletedBy |-> Null, deletedAt |-> Null,
   deleteReason |-> Null, views |-> 0, isAnswered |-> FALSE,
   acceptedAnswer |-> Null, upvotes |-> <<>>, downvotes |-> <<>>, v |-> 0]

NewAnswer(question, author) ==
  [question |-> question, author |-> author, content |-> "c1",
   isEdited |-> FALSE, editHistory |-> <<>>, isDeleted |-> FALSE,
   deletedBy |-> Null, deletedAt |-> Null, deleteReason |-> Null,
   isAccepted |-> FALSE, acceptedAt |-> Null, acceptedBy |-> Null,
   upvotes |-> <<>>, downvotes |-> <<>>, v |-> 0]

\* --------------------------------------------- POST /api/questions/:id/vote
\* The vote is taken for a soft-deleted question as well.
VoteQuestionLoadDeleted(r, u, qid, t) ==
  /\ req[r].pc = "idle"
  /\ VoteBudget
  /\ LET q == Start("voteQuestion", u, qid, t)
         question == findById(questions, qid)
     IN  req' = [req EXCEPT ![r] =
           IF t = "invalid" THEN Respond(q, 400)
           ELSE IF question.id = Null THEN Respond(q, 404)
           ELSE [q EXCEPT !.pc = "save", !.qn = question]]
  /\ UNCHANGED <<questions, answers, notifications, hist>>

VoteQuestionLoad(r, u, qid, t) ==
  /\ req[r].pc = "idle"
  /\ VoteBudget
  /\ LET q == Start("voteQuestion", u, qid, t)
         question == findById(questions, qid)
     IN  req' = [req EXCEPT ![r] =
           IF t = "invalid" THEN Respond(q, 400)
           ELSE IF question.id = Null \/ question.f.isDeleted
             THEN Respond(q, 404)
           ELSE [q EXCEPT !.pc = "save", !.qn = question]]
  /\ UNCHANGED <<questions, answers, notifications, hist>>

\* The requests that hold a copy of the same record and have not saved yet.
Overlapping(r) ==
  {o \in Reqs \ {r} : req[o].kind = req[r].kind
                      /\ req[o].target = req[r].target /\ req[o].pc = "save"}

VoteDoc(q, d) ==
  IF q.arg = "remove" THEN removeVoteDoc(d, q.user)
  ELSE addVoteDoc(d, q.user, q.arg)

VoteQuestionSave(r) ==
  /\ req[r].kind = "voteQuestion" /\ req[r].pc = "save"
  /\ LET q == req[r]
         d == VoteDoc(q, q.qn)
         stored == questions[q.target]
     IN  IF SaveFails(stored, d)
           THEN /\ req' = [req EXCEPT ![r] = Respond(q, 500)]
                /\ UNCHANGED questions
           ELSE /\ questions' = [questions EXCEPT ![q.target] = Saved(stored, d)]
                /\ req' = [req EXCEPT ![r] =
                     [q EXCEPT !.pc = "respond", !.qn = NoDoc,
                               !.overlap = Overlapping(r),
                               !.wrote = @ \/ Dirty(d)]]
  /\ UNCHANGED <<answers, notifications, hist>>

\* Question.findById(...).populate('author'), then res.json
VoteQuestionRespond(r) ==
  /\ req[r].kind = "voteQuestion" /\ req[r].pc = "respond"
  /\ req' = [req EXCEPT ![r] = Respond(req[r], 200)]
  /\ UNCHANGED <<questions, answers, notifications, hist>>

\* ----------------------------------------------- POST /api/answers/:id/vote
VoteAnswerLoad(r, u, aid, t) ==
  /\ req[r].pc = "idle"
  /\ VoteBudget
  /\ LET q == Start("voteAnswer", u, aid, t)
         answer == findById(answers, aid)
     IN  req' = [req EXCEPT ![r] =
           IF t = "invalid" THEN Respond(q, 400)
           ELSE IF answer.id = Null \/ answer.f.isDeleted
             THEN Respond(q, 404)
           ELSE [q EXCEPT !.pc = "save", !.ans = answer]]
  /\ UNCHANGED <<questions, answers, notifications, hist>>

VoteAnswerSave(r) ==
  /\ req[r].kind = "voteAnswer" /\ req[r].pc = "save"
  /\ LET q == req[r]
         d == VoteDoc(q, q.ans)
         stored == answers[q.target]
     IN  IF SaveFails(stored, d)
           THEN /\ req' = [req EXCEPT ![r] = Respond(q, 500)]
                /\ UNCHANGED answers
           ELSE /\ answers' = [answers EXCEPT ![q.target] = Saved(stored, d)]
                /\ req' = [req EXCEPT ![r] =
                     [q EXCEPT !.pc = "respond", !.ans = NoDoc,
                               !.overlap = Overlapping(r),
                               !.wrote = @ \/ Dirty(d)]]
  /\ UNCHANGED <<questions, notifications, hist>>

\* answer.populate('author'), then res.json
VoteAnswerRespond(r) ==
  /\ req[r].kind = "voteAnswer" /\ req[r].pc = "respond"
  /\ req' = [req EXCEPT ![r] = Respond(req[r], 200)]
  /\ UNCHANGED <<questions, answers, notifications, hist>>

\* ------------------------------------------------------- Answer methods
\* acceptedBy set to the answer's author instead of the accepting user.
acceptAnswerByAuthor(d, userId) ==
  Set(Touch(Set(d, "isAccepted", TRUE), "acceptedAt", "date"),
      "acceptedBy", d.f.author)

acceptAnswerDoc(d, userId) ==
  Set(Touch(Set(d, "isAccepted", TRUE), "acceptedAt", "date"),
      "acceptedBy", userId)

\* The flag is left set; only acceptedAt and acceptedBy are cleared.
unacceptAnswerKeepsFlag(d) ==
  Set(Set(d, "acceptedAt", Null), "acceptedBy", Null)

unacceptAnswerDoc(d) ==
  Set(Set(Set(d, "isAccepted", FALSE), "acceptedAt", Null), "acceptedBy", Null)

\* question.isAnswered = true; question.acceptedAnswer = answer._id
acceptQuestionDoc(d, answerId) ==
  Set(Set(d, "isAnswered", TRUE), "acceptedAnswer", answerId)

\* The reference to the answer is left in place.
unacceptQuestionKeepsAnswer(d) == Set(d, "isAnswered", FALSE)

\* question.isAnswered = false; question.acceptedAnswer = null
unacceptQuestionDoc(d) ==
  Set(Set(d, "isAnswered", FALSE), "acceptedAnswer", Null)

\* The check of the flag is missing.
isAcceptedUnchecked(answer) == TRUE

\* answer.isAccepted, as the unaccept handler reads it
isAccepted(answer) == answer.f.isAccepted

\* The permission check of edit and delete, which lets admins pass.
isQuestionAuthorOrAdmin(question, userId) ==
  question.f.author = userId \/ Role[userId] = "admin"

\* question.author.toString() === req.user._id.toString()
isQuestionAuthor(question, userId) == question.f.author = userId

\* The notification is sent without the comparison of author and sender.
notifiesAlways(question, userId) == TRUE

\* the guard of the notification: question.author !== req.user._id
notifiesAuthor(question, userId) == question.f.author # userId

\* The notification is sent also to the requester's own answer.
acceptNotifiesAlways(answer, userId) == TRUE

\* the guard of the notification: answer.author !== req.user._id
acceptNotifies(answer, userId) == answer.f.author # userId

\* The role is not looked at: only the author passes.
mayModifyAuthorOnly(doc, userId) == doc.f.author = userId

\* answer.author === req.user._id || req.user.role === 'admin'
mayModify(doc, userId) == doc.f.author = userId \/ Role[userId] = "admin"

\* Notification.createNotification(data) with the data of the two callers.
Notification(recipient, sender, type, relatedQuestion, relatedAnswer) ==
  [recipient |-> recipient, sender |-> sender, type |-> type,
   relatedQuestion |-> relatedQuestion, relatedAnswer |-> relatedAnswer,
   isRead |-> FALSE, readAt |-> Null]

\* Notifications persisted so far and the requests that may still add one.
PendingNotifiers ==
  Cardinality({r \in Reqs : InFlight(r)
                            /\ req[r].kind \in {"accept", "createAnswer"}})

NotificationBudget ==
  Len(notifications) + PendingNotifiers < MaxNotifications

\* --------------------------------------------- POST /api/answers/:id/accept
AcceptLoadAnswer(r, u, aid) ==
  /\ req[r].pc = "idle"
  /\ NotificationBudget
  /\ LET q == Start("accept", u, aid, Null)
         answer == findById(answers, aid)
     IN  req' = [req EXCEPT ![r] =
           IF answer.id = Null \/ answer.f.isDeleted THEN Respond(q, 404)
           ELSE [q EXCEPT !.pc = "question", !.ans = answer]]
  /\ UNCHANGED <<questions, answers, notifications, hist>>

AcceptLoadQuestion(r) ==
  /\ req[r].kind = "accept" /\ req[r].pc = "question"
  /\ LET q == req[r]
         question == findById(questions, q.ans.f.question)
     IN  req' = [req EXCEPT ![r] =
           IF question.id = Null \/ question.f.isDeleted THEN Respond(q, 404)
           ELSE IF ~isQuestionAuthor(question, q.user) THEN Respond(q, 403)
           ELSE [q EXCEPT !.qn = question,
                          !.pc = IF question.f.acceptedAnswer # Null
                                   THEN "previous" ELSE "accept"]]
  /\ UNCHANGED <<questions, answers, notifications, hist>>

\* const previousAccepted = await Answer.findById(question.acceptedAnswer)
AcceptLoadPrevious(r) ==
  /\ req[r].kind = "accept" /\ req[r].pc = "previous"
  /\ LET q == req[r]
         previousAccepted == findById(answers, q.qn.f.acceptedAnswer)
     IN  req' = [req EXCEPT ![r] =
           IF previousAccepted.id = Null THEN [q EXCEPT !.pc = "accept"]
           ELSE [q EXCEPT !.prev = previousAccepted, !.pc = "unaccept"]]
  /\ UNCHANGED <<questions, answers, notifications, hist>>

\* await previousAccepted.unacceptAnswer()
AcceptUnacceptPrevious(r) ==
  /\ req[r].kind = "accept" /\ req[r].pc = "unaccept"
  /\ LET q == req[r]
         d == unacceptAnswerDoc(q.prev)
     IN  /\ answers' = [answers EXCEPT ![d.id] = Saved(@, d)]
         /\ req' = [req EXCEPT ![r] =
              [q EXCEPT !.pc = "accept", !.prev = NoDoc,
                        !.wrote = @ \/ Dirty(d)]]
  /\ UNCHANGED <<questions, notifications, hist>>

\* await answer.acceptAnswer(req.user._id)
AcceptSaveAnswer(r) ==
  /\ req[r].kind = "accept" /\ req[r].pc = "accept"
  /\ LET q == req[r]
         d == acceptAnswerDoc(q.ans, q.user)
     IN  /\ answers' = [answers EXCEPT ![d.id] = Saved(@, d)]
         /\ req' = [req EXCEPT ![r] =
              [q EXCEPT !.pc = "saveQuestion", !.wrote = @ \/ Dirty(d),
                        !.ans = [d EXCEPT !.mod = {}]]]
  /\ UNCHANGED <<questions, notifications, hist>>

\* question.isAnswered = true; question.acceptedAnswer = answer._id; save
AcceptSaveQuestion(r) ==
  /\ req[r].kind = "accept" /\ req[r].pc = "saveQuestion"
  /\ LET q == req[r]
         d == acceptQuestionDoc(q.qn, q.ans.id)
     IN  /\ questions' = [questions EXCEPT ![d.id] = Saved(@, d)]
         /\ req' = [req EXCEPT ![r] =
              [q EXCEPT !.pc = IF acceptNotifies(q.ans, q.user)
                                 THEN "notify" ELSE "respond",
                        !.wrote = @ \/ Dirty(d),
                        !.qn = [d EXCEPT !.mod = {}]]]
  /\ UNCHANGED <<answers, notifications, hist>>

\* await Notification.createNotification({... type: 'answer_accepted' ...})
AcceptNotify(r) ==
  /\ req[r].kind = "accept" /\ req[r].pc = "notify"
  /\ LET q == req[r]
         n == Notification(q.ans.f.author, q.user, "answer_accepted",
                           q.qn.id, q.ans.id)
     IN  /\ notifications' = Append(notifications, n)
         /\ req' = [req EXCEPT ![r] =
              [q EXCEPT !.pc = "respond", !.wrote = TRUE,
                        !.created = Append(@, n)]]
  /\ UNCHANGED <<questions, answers, hist>>

\* The notification is persisted, then io.to(...).emit(...) (or the lookup in
\* connectedUsers) throws: the handler's catch answers 500.
AcceptNotifyPushFails(r) ==
  /\ req[r].kind = "accept" /\ req[r].pc = "notify"
  /\ LET q == req[r]
         n == Notification(q.ans.f.author, q.user, "answer_accepted",
                           q.qn.id, q.ans.id)
     IN  /\ notifications' = Append(notifications, n)
         /\ req' = [req EXCEPT ![r] =
              Respond([q EXCEPT !.wrote = TRUE, !.created = Append(@, n)],
                      500)]
  /\ UNCHANGED <<questions, answers, hist>>

\* answer.populate('author'), then res.json
AcceptRespond(r) ==
  /\ req[r].kind = "accept" /\ req[r].pc = "respond"
  /\ req' = [req EXCEPT ![r] = Respond(req[r], 200)]
  /\ UNCHANGED <<questions, answers, notifications, hist>>

\* ------------------------------------------- POST /api/answers/:id/unaccept
UnacceptLoadAnswer(r, u, aid) ==
  /\ req[r].pc = "idle"
  /\ LET q == Start("unaccept", u, aid, Null)
         answer == findById(answers, aid)
     IN  req' = [req EXCEPT ![r] =
           IF answer.id = Null \/ answer.f.isDeleted THEN Respond(q, 404)
           ELSE [q EXCEPT !.pc = "question", !.ans = answer]]
  /\ UNCHANGED <<questions, answers, notifications, hist>>

UnacceptLoadQuestion(r) ==
  /\ req[r].kind = "unaccept" /\ req[r].pc = "question"
  /\ LET q == req[r]
         question == findById(questions, q.ans.f.question)
     IN  req' = [req EXCEPT ![r] =
           IF question.id = Null \/ question.f.isDeleted THEN Respond(q, 404)
           ELSE IF ~isQuestionAuthor(question, q.user) THEN Respond(q, 403)
           ELSE IF ~isAccepted(q.ans) THEN Respond(q, 400)
           ELSE [q EXCEPT !.qn = question, !.pc = "unaccept"]]
  /\ UNCHANGED <<questions, answers, notifications, hist>>

\* await answer.unacceptAnswer()
UnacceptSaveAnswer(r) ==
  /\ req[r].kind = "unaccept" /\ req[r].pc = "unaccept"
  /\ LET q == req[r]
         d == unacceptAnswerDoc(q.ans)
     IN  /\ answers' = [answers EXCEPT ![d.id] = Saved(@, d)]
         /\ req' = [req EXCEPT ![r] =
              [q EXCEPT !.pc = "saveQuestion", !.wrote = @ \/ Dirty(d),
                        !.ans = [d EXCEPT !.mod = {}]]]
  /\ UNCHANGED <<questions, notifications, hist>>

\* question.isAnswered = false; question.acceptedAnswer = null; save
UnacceptSaveQuestion(r) ==
  /\ req[r].kind = "unaccept" /\ req[r].pc = "saveQuestion"
  /\ LET q == req[r]
         d == unacceptQuestionDoc(q.qn)
     IN  /\ questions' = [questions EXCEPT ![d.id] = Saved(@, d)]
         /\ req' = [req EXCEPT ![r] =
              [q EXCEPT !.pc = "respond", !.wrote = @ \/ Dirty(d),
                        !.qn = [d EXCEPT !.mod = {}]]]
  /\ UNCHANGED <<answers, notifications, hist>>

\* answer.populate('author'), then res.json
UnacceptRespond(r) ==
  /\ req[r].kind = "unaccept" /\ req[r].pc = "respond"
  /\ req' = [req EXCEPT ![r] = Respond(req[r], 200)]
  /\ UNCHANGED <<questions, answers, notifications, hist>>

\* ------------------------------------------------------ POST /api/answers
AnswerBudget ==
  Cardinality(DOMAIN answers)
    + Cardinality({r \in Reqs : InFlight(r) /\ req[r].kind = "createAnswer"})
    < MaxAnswers

CreateAnswerLoadQuestion(r, u, qid, len) ==
  /\ req[r].pc = "idle"
  /\ AnswerBudget /\ NotificationBudget
  /\ LET q == Start("createAnswer", u, qid, len)
         question == findById(questions, qid)
     IN  req' = [req EXCEPT ![r] =
           IF len < MinAnswerLength THEN Respond(q, 400)
           ELSE IF question.id = Null \/ question.f.isDeleted
             THEN Respond(q, 404)
           ELSE [q EXCEPT !.pc = "existing", !.qn = question]]
  /\ UNCHANGED <<questions, answers, notifications, hist>>

\* Answer.findOne({question, author, isDeleted: false})
existingAnswer(qid, userId) ==
  \E a \in DOMAIN answers :
    /\ answers[a].question = qid
    /\ answers[a].author = userId
    /\ answers[a].isDeleted = FALSE

CreateAnswerFindExisting(r) ==
  /\ req[r].kind = "createAnswer" /\ req[r].pc = "existing"
  /\ LET q == req[r]
     IN  req' = [req EXCEPT ![r] =
           IF existingAnswer(q.target, q.user) THEN Respond(q, 400)
           ELSE [q EXCEPT !.pc = "save"]]
  /\ UNCHANGED <<questions, answers, notifications, hist>>

\* new Answer({content, question, author}); await answer.save()
CreateAnswerSave(r) ==
  /\ req[r].kind = "createAnswer" /\ req[r].pc = "save"
  /\ LET q == req[r]
         id == AnswerIdSeq[Cardinality(DOMAIN answers) + 1]
         answer == NewAnswer(q.target, q.user)
     IN  /\ answers' = [a \in DOMAIN answers \cup {id} |->
                          IF a = id THEN answer ELSE answers[a]]
         /\ req' = [req EXCEPT ![r] =
              [q EXCEPT !.pc = "populate", !.wrote = TRUE,
                        !.ans = [id |-> id, f |-> answer, mod |-> {},
                                 push |-> NoPush]]]
  /\ UNCHANGED <<questions, notifications, hist>>

\* await answer.populate('author'); no notification for the own question
CreateAnswerPopulate(r) ==
  /\ req[r].kind = "createAnswer" /\ req[r].pc = "populate"
  /\ LET q == req[r]
     IN  req' = [req EXCEPT ![r] =
           IF notifiesAuthor(q.qn, q.user) THEN [q EXCEPT !.pc = "notify"]
           ELSE Respond(q, 201)]
  /\ UNCHANGED <<questions, answers, notifications, hist>>

\* await Notification.createNotification({... type: 'answer_received' ...})
CreateAnswerNotify(r) ==
  /\ req[r].kind = "createAnswer" /\ req[r].pc = "notify"
  /\ LET q == req[r]
         n == Notification(q.qn.f.author, q.user, "answer_received",
                           q.target, q.ans.id)
     IN  /\ notifications' = Append(notifications, n)
         /\ req' = [req EXCEPT ![r] =
              Respond([q EXCEPT !.created = Append(@, n)], 201)]
  /\ UNCHANGED <<questions, answers, hist>>

\* The notification is persisted, then the real-time push throws: the
\* handler's catch answers 500.
CreateAnswerNotifyPushFails(r) ==
  /\ req[r].kind = "createAnswer" /\ req[r].pc = "notify"
  /\ LET q == req[r]
         n == Notification(q.qn.f.author, q.user, "answer_received",
                           q.target, q.ans.id)
     IN  /\ notifications' = Append(notifications, n)
         /\ req' = [req EXCEPT ![r] =
              Respond([q EXCEPT !.created = Append(@, n)], 500)]
  /\ UNCHANGED <<questions, answers, hist>>

\* ------------------------------------------------ DELETE /api/answers/:id
DeleteBudget ==
  Cardinality({a \in DOMAIN answers : answers[a].isDeleted})
    + Cardinality({r \in Reqs : InFlight(r) /\ req[r].kind = "deleteAnswer"})
    < MaxDeleted

DeleteAnswerLoad(r, u, aid, reason) ==
  /\ req[r].pc = "idle"
  /\ DeleteBudget
  /\ LET q == Start("deleteAnswer", u, aid, reason)
         answer == findById(answers, aid)
     IN  req' = [req EXCEPT ![r] =
           IF answer.id = Null \/ answer.f.isDeleted THEN Respond(q, 404)
           ELSE IF ~mayModify(answer, u) THEN Respond(q, 403)
           ELSE [q EXCEPT !.pc = "save", !.ans = answer]]
  /\ UNCHANGED <<questions, answers, notifications, hist>>

DeleteAnswerSave(r) ==
  /\ req[r].kind = "deleteAnswer" /\ req[r].pc = "save"
  /\ LET q == req[r]
         d == Set(Touch(Set(Set(q.ans, "isDeleted", TRUE),
                            "deletedBy", q.user), "deletedAt", "date"),
                  "deleteReason",
                  IF q.arg = Null THEN "No reason provided" ELSE q.arg)
     IN  /\ answers' = [answers EXCEPT ![d.id] = Saved(@, d)]
         /\ req' = [req EXCEPT ![r] = Respond([q EXCEPT !.wrote = TRUE], 200)]
  /\ UNCHANGED <<questions, notifications, hist>>

\* ---------------------------------------------------- PUT /api/answers/:id
\* Edit history entries written so far.
EditBudget ==
  LET RECURSIVE Sum(_, _)
      Sum(coll, ids) ==
        IF ids = {} THEN 0
        ELSE LET id == CHOOSE x \in ids : TRUE
             IN  Len(coll[id].editHistory) + Sum(coll, ids \ {id})
  IN  Sum(questions, DOMAIN questions) + Sum(answers, DOMAIN answers)
        < MaxEdits

\* editReason || 'No reason provided'
reasonOrDefault(reason) ==
  IF reason = Null THEN "No reason provided" ELSE reason

UpdateAnswerLoad(r, u, aid, content, editReason, valid) ==
  /\ req[r].pc = "idle"
  /\ EditBudget
  /\ LET q == Start("updateAnswer", u, aid,
                    [content |-> content, editReason |-> editReason,
                     valid |-> valid])
         answer == findById(answers, aid)
     IN  req' = [req EXCEPT ![r] =
           IF ~valid THEN Respond(q, 400)
           ELSE IF answer.id = Null \/ answer.f.isDeleted THEN Respond(q, 404)
           ELSE IF ~mayModify(answer, u) THEN Respond(q, 403)
           ELSE IF content = answer.f.content THEN Respond(q, 400)
           ELSE [q EXCEPT !.pc = "save", !.ans = answer]]
  /\ UNCHANGED <<questions, answers, notifications, hist>>

\* answer.editHistory.push(...); answer.content = content; isEdited; save
UpdateAnswerSave(r) ==
  /\ req[r].kind = "updateAnswer" /\ req[r].pc = "save"
  /\ LET q == req[r]
         entry == [editedBy |-> q.user, previousContent |-> q.ans.f.content,
                   editReason |-> reasonOrDefault(q.arg.editReason)]
         d == Set(Set(Push(q.ans, "editHistory", entry),
                      "content", q.arg.content), "isEdited", TRUE)
         stored == answers[q.target]
     IN  IF SaveFails(stored, d)
           THEN /\ req' = [req EXCEPT ![r] = Respond(q, 500)]
                /\ UNCHANGED answers
           ELSE /\ answers' = [answers EXCEPT ![q.target] = Saved(stored, d)]
                /\ req' = [req EXCEPT ![r] =
                     [q EXCEPT !.pc = "respond", !.wrote = TRUE,
                               !.ans = [d EXCEPT !.mod = {}, !.push = NoPush]]]
  /\ UNCHANGED <<questions, notifications, hist>>

\* answer.populate('author'), then res.json
UpdateAnswerRespond(r) ==
  /\ req[r].kind = "updateAnswer" /\ req[r].pc = "respond"
  /\ req' = [req EXCEPT ![r] = Respond(req[r], 200)]
  /\ UNCHANGED <<questions, answers, notifications, hist>>

\* -------------------------------------------------- PUT /api/questions/:id
\* String.prototype.toLowerCase, letter by letter
lowerChar(c) ==
  IF c = "A" THEN "a" ELSE IF c = "G" THEN "g" ELSE IF c = "J" THEN "j"
  ELSE IF c = "S" THEN "s" ELSE c

toLowerCase(s) ==
  LET RECURSIVE lower(_)
      lower(t) ==
        IF Len(t) = 0 THEN t
        ELSE lowerChar(SubSeq(t, 1, 1)) \o lower(SubSeq(t, 2, Len(t)))
  IN  lower(s)

\* String.prototype.trim: the white space at both ends is dropped
trim(s) ==
  LET RECURSIVE trimStart(_), trimEnd(_)
      trimStart(t) ==
        IF Len(t) > 0 /\ SubSeq(t, 1, 1) = " "
          THEN trimStart(SubSeq(t, 2, Len(t))) ELSE t
      trimEnd(t) ==
        IF Len(t) > 0 /\ SubSeq(t, Len(t), Len(t)) = " "
          THEN trimEnd(SubSeq(t, 1, Len(t) - 1)) ELSE t
  IN  trimEnd(trimStart(s))

\* tags.map(tag => tag.toLowerCase().trim())
normalTag(tag) == trim(toLowerCase(tag))

normalTags(tags) == [i \in 1..Len(tags) |-> normalTag(tags[i])]

\* updateFields: the paths the request changes, as modified paths of a copy.
updateFields(question, body) ==
  LET d1 == IF body.title # Null /\ body.title # question.f.title
              THEN Touch(question, "title", body.title) ELSE question
      d2 == IF body.description # Null
               /\ body.description # question.f.description
              THEN Touch(d1, "description", body.description) ELSE d1
  IN  IF body.tags # Null THEN Touch(d2, "tags", normalTags(body.tags))
      ELSE d2

\* findByIdAndUpdate(id, updateFields): the given paths are $set, no __v.
Updated(stored, d) ==
  [p \in DOMAIN stored |-> IF p \in d.mod THEN d.f[p] ELSE stored[p]]

UpdateQuestionLoad(r, u, qid, body, valid) ==
  /\ req[r].pc = "idle"
  /\ EditBudget
  /\ LET q == Start("updateQuestion", u, qid,
                    [title |-> body.title, description |-> body.description,
                     tags |-> body.tags, editReason |-> body.editReason,
                     valid |-> valid])
         question == findById(questions, qid)
         fields == updateFields(question, body)
         entry == [editedBy |-> u,
                   previousContent |-> [title |-> question.f.title,
                                        description |-> question.f.description,
                                        tags |-> question.f.tags],
                   editReason |-> reasonOrDefault(body.editReason)]
     IN  req' = [req EXCEPT ![r] =
           IF ~valid THEN Respond(q, 400)
           ELSE IF question.id = Null \/ question.f.isDeleted
             THEN Respond(q, 404)
           ELSE IF ~mayModify(question, u) THEN Respond(q, 403)
           ELSE IF fields.mod = {} THEN Respond(q, 400)
           ELSE [q EXCEPT !.pc = "save",
                          !.qn = Touch(Touch(fields, "isEdited", TRUE),
                                       "editHistory",
                                       Append(question.f.editHistory, entry))]]
  /\ UNCHANGED <<questions, answers, notifications, hist>>

UpdateQuestionSave(r) ==
  /\ req[r].kind = "updateQuestion" /\ req[r].pc = "save"
  /\ LET q == req[r]
     IN  /\ questions' = [questions EXCEPT ![q.target] = Updated(@, q.qn)]
         /\ req' = [req EXCEPT ![r] = Respond([q EXCEPT !.wrote = TRUE], 200)]
  /\ UNCHANGED <<answers, notifications, hist>>

\* ----------------------------------------------- DELETE /api/questions/:id
DeleteQuestionLoad(r, u, qid, reason) ==
  /\ req[r].pc = "idle"
  /\ LET q == Start("deleteQuestion", u, qid, reason)
         question == findById(questions, qid)
     IN  req' = [req EXCEPT ![r] =
           IF question.id = Null \/ question.f.isDeleted THEN Respond(q, 404)
           ELSE IF ~mayModify(question, u) THEN Respond(q, 403)
           ELSE [q EXCEPT !.pc = "save", !.qn = question]]
  /\ UNCHANGED <<questions, answers, notifications, hist>>

DeleteQuestionSave(r) ==
  /\ req[r].kind = "deleteQuestion" /\ req[r].pc = "save"
  /\ LET q == req[r]
         d == Set(Touch(Set(Set(q.qn, "isDeleted", TRUE),
                            "deletedBy", q.user), "deletedAt", "date"),
                  "deleteReason", reasonOrDefault(q.arg))
     IN  /\ questions' = [questions EXCEPT ![d.id] = Saved(@, d)]
         /\ req' = [req EXCEPT ![r] = Respond([q EXCEPT !.wrote = TRUE], 200)]
  /\ UNCHANGED <<answers, notifications, hist>>

\* ------------------------------------------------------- GET /api/questions
Reverse(seq) == [i \in 1..Len(seq) |-> seq[Len(seq) + 1 - i]]

Range(seq) == {seq[i] : i \in 1..Len(seq)}

\* find(filter).sort({createdAt: order}): the matching ids, in that order
Sorted(ids, idSeq, order) ==
  LET Match(id) == id \in ids
  IN  SelectSeq(IF order = -1 THEN Reverse(idSeq) ELSE idSeq, Match)

\* .skip((page - 1) * limit).limit(limit)
Page(list, page, limit) ==
  LET skip == (page - 1) * limit
      end == IF skip + limit < Len(list) THEN skip + limit ELSE Len(list)
  IN  SubSeq(list, skip + 1, end)

\* tag.toLowerCase()
lowerTag(tag) == toLowerCase(tag)

\* { isDeleted: false, ... }: the filter every listing and count starts from
Live(f) == f.isDeleted = FALSE

GetQuestions(r, sort, tag, page, limit) ==
  /\ req[r].pc = "idle"
  /\ LET q == Start("getQuestions", Null, Null,
                    [sort |-> sort, tag |-> tag, page |-> page,
                     limit |-> limit])
         filter == {id \in DOMAIN questions :
                      /\ Live(questions[id])
                      /\ tag # Null
                           => lowerTag(tag) \in Range(questions[id].tags)
                      /\ sort = "unanswered" => ~questions[id].isAnswered}
         found == Page(Sorted(filter, QuestionIdSeq,
                              IF sort = "oldest" THEN 1 ELSE -1),
                       page, limit)
     IN  req' = [req EXCEPT ![r] =
           Respond([q EXCEPT !.res.questions = Range(found),
                             !.res.questionCount = Cardinality(filter)], 200)]
  /\ UNCHANGED <<questions, answers, notifications, hist>>

\* --------------------------------------------------- GET /api/questions/:id
ViewBudget ==
  \A id \in DOMAIN questions : questions[id].views < MaxViews

\* Question.findById(id).populate(...).populate({path: 'answers', ...}): the
\* schema has no path `answers`.  With strictPopulate (the default since
\* Mongoose 6) the query of a stored question rejects; without it the
\* path is skipped and question.answers.map(...) throws after the views
\* were counted.  Either way the handler's catch answers 500.
GetQuestionLoad(r, u, qid, strictPopulate) ==
  /\ req[r].pc = "idle"
  /\ ViewBudget
  /\ LET q == Start("getQuestion", u, qid, strictPopulate)
         question == findById(questions, qid)
     IN  req' = [req EXCEPT ![r] =
           IF question.id = Null THEN Respond(q, 404)
           ELSE IF strictPopulate THEN Respond(q, 500)
           ELSE IF question.f.isDeleted THEN Respond(q, 404)
           ELSE [q EXCEPT !.pc = "views", !.qn = question]]
  /\ UNCHANGED <<questions, answers, notifications, hist>>

\* await question.incrementViews(); then question.answers.map throws
GetQuestionViews(r) ==
  /\ req[r].kind = "getQuestion" /\ req[r].pc = "views"
  /\ LET q == req[r]
         d == Set(q.qn, "views", q.qn.f.views + 1)
     IN  /\ questions' = [questions EXCEPT ![d.id] = Saved(@, d)]
         /\ req' = [req EXCEPT ![r] = Respond([q EXCEPT !.wrote = TRUE], 500)]
  /\ UNCHANGED <<answers, notifications, hist>>

\* ------------------------------------------------------- GET /api/users/...
\* GET /api/users/:id: the profile with the counts of the user's records
GetUserProfile(r, uid) ==
  /\ req[r].pc = "idle"
  /\ LET q == Start("getUserProfile", Null, uid, Null)
         mine(coll) == {id \in DOMAIN coll :
                          coll[id].author = uid /\ Live(coll[id])}
     IN  req' = [req EXCEPT ![r] =
           IF uid \notin DOMAIN users \/ users[uid].isBanned
             THEN Respond(q, 404)
           ELSE Respond([q EXCEPT
                  !.res.questionCount = Cardinality(mine(questions)),
                  !.res.answerCount = Cardinality(mine(answers)),
                  !.res.acceptedCount =
                     Cardinality({id \in mine(answers) :
                                    answers[id].isAccepted})], 200)]
  /\ UNCHANGED <<questions, answers, notifications, hist>>

\* GET /api/users/:id/questions
GetUserQuestions(r, uid, page, limit) ==
  /\ req[r].pc = "idle"
  /\ LET q == Start("getUserQuestions", Null, uid,
                    [page |-> page, limit |-> limit])
         filter == {id \in DOMAIN questions :
                      questions[id].author = uid /\ Live(questions[id])}
         found == Page(Sorted(filter, QuestionIdSeq, -1), page, limit)
     IN  req' = [req EXCEPT ![r] =
           Respond([q EXCEPT !.res.questions = Range(found),
                             !.res.questionCount = Cardinality(filter)], 200)]
  /\ UNCHANGED <<questions, answers, notifications, hist>>

\* GET /api/users/:id/answers: each answer with .populate('question', 'title')
GetUserAnswers(r, uid, page, limit) ==
  /\ req[r].pc = "idle"
  /\ LET q == Start("getUserAnswers", Null, uid,
                    [page |-> page, limit |-> limit])
         filter == {id \in DOMAIN answers :
                      answers[id].author = uid /\ Live(answers[id])}
         found == Page(Sorted(filter, AnswerIdSeq, -1), page, limit)
         populated == {answers[id].question : id \in Range(found)}
                        \cap DOMAIN questions
     IN  req' = [req EXCEPT ![r] =
           Respond([q EXCEPT !.res.answers = Range(found),
                             !.res.questions = populated,
                             !.res.answerCount = Cardinality(filter)], 200)]
  /\ UNCHANGED <<questions, answers, notifications, hist>>

\* GET /api/users/stats/overview, behind requireAdmin
GetStats(r, u) ==
  /\ req[r].pc = "idle"
  /\ Role[u] = "admin"
  /\ LET q == Start("getStats", u, Null, Null)
         totalQuestions == {id \in DOMAIN questions : Live(questions[id])}
         totalAnswers == {id \in DOMAIN answers : Live(answers[id])}
     IN  req' = [req EXCEPT ![r] =
           Respond([q EXCEPT
             !.res.questionCount = Cardinality(totalQuestions),
             !.res.answerCount = Cardinality(totalAnswers),
             !.res.acceptedCount =
                Cardinality({id \in totalQuestions :
                               questions[id].isAnswered})], 200)]
  /\ UNCHANGED <<questions, answers, notifications, hist>>

\* ------------------------------------------------------ /api/notifications
\* The place a removed notification leaves in the collection.
Removed == Notification(Null, Null, Null, Null, Null)

NotificationIds ==
  {NotificationIdSeq[i] : i \in 1..Len(notifications)}

IndexOf(nid) == CHOOSE i \in 1..Len(NotificationIdSeq) : NotificationIdSeq[i] = nid

\* Notification.findById(req.params.id)
findNotification(nid) ==
  IF nid \in NotificationIds /\ notifications[IndexOf(nid)] # Removed
    THEN [id |-> nid, f |-> notifications[IndexOf(nid)], mod |-> {},
          push |-> NoPush]
    ELSE NoDoc

\* Every caller passes.
isRecipientUnchecked(notification, userId) == TRUE

\* notification.recipient.toString() === req.user._id.toString()
isRecipient(notification, userId) == notification.f.recipient = userId

\* PUT /:id/read, PUT /:id/unread, DELETE /:id up to the permission check.
\* '/:id' takes any path segment; one that is no ObjectId makes findById
\* reject with a CastError, which the handler's catch answers with 500.
NotificationLoad(r, kind, u, nid, arg) ==
  /\ req[r].pc = "idle"
  /\ LET q == Start(kind, u, nid, arg)
         notification == findNotification(nid)
     IN  req' = [req EXCEPT ![r] =
           IF nid = ClearAll THEN Respond(q, 500)
           ELSE IF notification.id = Null THEN Respond(q, 404)
           ELSE IF ~isRecipient(notification, u) THEN Respond(q, 403)
           ELSE [q EXCEPT !.pc = "save", !.prev = notification]]
  /\ UNCHANGED <<questions, answers, notifications, hist>>

\* save() of a document that is no longer stored rejects.
NotificationSave(r, d) ==
  LET q == req[r]
      i == IndexOf(d.id)
  IN  IF notifications[i] = Removed
        THEN /\ req' = [req EXCEPT ![r] = Respond(q, 500)]
             /\ UNCHANGED notifications
        ELSE /\ notifications' =
                  [notifications EXCEPT ![i] = Saved(@, d)]
             /\ req' = [req EXCEPT ![r] =
                  Respond([q EXCEPT !.wrote = @ \/ Dirty(d)], 200)]

\* await notification.markAsRead()
MarkReadSave(r) ==
  /\ req[r].kind = "markRead" /\ req[r].pc = "save"
  /\ NotificationSave(r, Touch(Set(req[r].prev, "isRead", TRUE),
                               "readAt", "date"))
  /\ UNCHANGED <<questions, answers, hist>>

\* await notification.markAsUnread()
MarkUnreadSave(r) ==
  /\ req[r].kind = "markUnread" /\ req[r].pc = "save"
  /\ NotificationSave(r, Set(Set(req[r].prev, "isRead", FALSE),
                             "readAt", Null))
  /\ UNCHANGED <<questions, answers, hist>>

\* await notification.remove(): Document.prototype.remove is gone since
\* Mongoose 7, where the call throws and the catch answers 500.
DeleteNotificationRemove(r) ==
  /\ req[r].kind = "deleteNotification" /\ req[r].pc = "save"
  /\ LET q == req[r]
         i == IndexOf(q.prev.id)
     IN  IF q.arg
           THEN /\ notifications' = [notifications EXCEPT ![i] = Removed]
                /\ req' = [req EXCEPT ![r] =
                     Respond([q EXCEPT !.wrote = TRUE], 200)]
           ELSE /\ req' = [req EXCEPT ![r] = Respond(q, 500)]
                /\ UNCHANGED notifications
  /\ UNCHANGED <<questions, answers, hist>>

\* Notification.markAllAsRead(userId): updateMany({recipient, isRead: false})
markAllAsRead(userId) ==
  [i \in 1..Len(notifications) |->
     IF notifications[i].recipient = userId /\ ~notifications[i].isRead
       THEN [notifications[i] EXCEPT !.isRead = TRUE, !.readAt = "date"]
       ELSE notifications[i]]

\* PUT /mark-all-read
MarkAllRead(r, u) ==
  /\ req[r].pc = "idle"
  /\ notifications' = markAllAsRead(u)
  /\ req' = [req EXCEPT ![r] =
       Respond([Start("markAllRead", u, Null, Null) EXCEPT
                  !.wrote = notifications' # notifications], 200)]
  /\ UNCHANGED <<questions, answers, hist>>

\* Notification.deleteMany({recipient}), the handler of DELETE /clear-all
deleteMany(userId) ==
  [i \in 1..Len(notifications) |->
     IF notifications[i].recipient = userId THEN Removed
     ELSE notifications[i]]

ClearAllNotifications(r, u) ==
  /\ req[r].pc = "idle"
  /\ notifications' = deleteMany(u)
  /\ req' = [req EXCEPT ![r] =
       Respond([Start("clearAll", u, Null, Null) EXCEPT
                  !.wrote = notifications' # notifications], 200)]
  /\ UNCHANGED <<questions, answers, hist>>

\* router.delete('/:id') is registered before router.delete('/clear-all'):
\* the first route whose path matches handles the request.
MatchesId(segment) == TRUE

DeleteRoute(r, u, segment, removeSupported) ==
  IF MatchesId(segment)
    THEN NotificationLoad(r, "deleteNotification", u, segment,
                          removeSupported)
    ELSE segment = ClearAll /\ ClearAllNotifications(r, u)

\* ------------------------------------------------- PUT /api/users/:id/ban
\* The ban goes through whatever the role of the target.
isAdminUnchecked(user) == FALSE

\* user.role === 'admin'
isAdmin(user) == user.f.role = "admin"

\* The route is behind requireAdmin.
BanLoad(r, u, uid, reason) ==
  /\ req[r].pc = "idle"
  /\ users[u].role = "admin"
  /\ LET q == Start("ban", u, uid, reason)
         user == findById(users, uid)
     IN  req' = [req EXCEPT ![r] =
           IF reason = "" THEN Respond(q, 400)
           ELSE IF user.id = Null THEN Respond(q, 404)
           ELSE IF isAdmin(user) THEN Respond(q, 403)
           ELSE [q EXCEPT !.pc = "save", !.prev = user]]
  /\ UNCHANGED <<users, questions, answers, notifications, pre, last>>

\* user.isBanned = true; user.banReason = req.body.reason; save
BanSave(r) ==
  /\ req[r].kind = "ban" /\ req[r].pc = "save"
  /\ LET q == req[r]
         d == Set(Set(q.prev, "isBanned", TRUE), "banReason", q.arg)
     IN  /\ users' = [users EXCEPT ![d.id] = Saved(@, d)]
         /\ req' = [req EXCEPT ![r] =
              Respond([q EXCEPT !.wrote = @ \/ Dirty(d)], 200)]
  /\ UNCHANGED <<questions, answers, notifications, pre, last>>

\* ----------------------------------------------- PUT /api/users/:id/unban
UnbanLoad(r, u, uid) ==
  /\ req[r].pc = "idle"
  /\ users[u].role = "admin"
  /\ LET q == Start("unban", u, uid, Null)
         user == findById(users, uid)
     IN  req' = [req EXCEPT ![r] =
           IF user.id = Null THEN Respond(q, 404)
           ELSE [q EXCEPT !.pc = "save", !.prev = user]]
  /\ UNCHANGED <<users, questions, answers, notifications, pre, last>>

\* user.isBanned = false; user.banReason = ''; save
UnbanSave(r) ==
  /\ req[r].kind = "unban" /\ req[r].pc = "save"
  /\ LET q == req[r]
         d == Set(Set(q.prev, "isBanned", FALSE), "banReason", "")
     IN  /\ users' = [users EXCEPT ![d.id] = Saved(@, d)]
         /\ req' = [req EXCEPT ![r] =
              Respond([q EXCEPT !.wrote = @ \/ Dirty(d)], 200)]
  /\ UNCHANGED <<questions, answers, notifications, pre, last>>

\* The response has been sent; the connection serves the next request.
Finish(r) ==
  /\ req[r].pc = "done"
  /\ req' = [o \in Reqs |->
       IF o = r THEN Idle ELSE [req[o] EXCEPT !.overlap = @ \ {r}]]
  /\ UNCHANGED <<questions, answers, notifications, hist>>

\* ------------------------------------------------------ the vote ledger
NoSnapshot ==
  [users |-> <<>>, questions |-> <<>>, answers |-> <<>>,
   notifications |-> <<>>]

NoLast == [req |-> Idle, questions |-> <<>>, answers |-> <<>>]

InitVote ==
  /\ questions = [id \in {"q1"} |-> NewQuestion("u1")]
  /\ answers = [id \in {"a1"} |-> NewAnswer("q1", "u2")]
  /\ notifications = <<>>
  /\ users = [u \in Users |-> NewUser(Role[u])]
  /\ req = [r \in Reqs |-> Idle]
  /\ pre = NoSnapshot
  /\ last = NoLast

NextVote ==
  \E r \in Reqs :
    \/ \E u \in Voters, qid \in DOMAIN questions \cup {MissingId}, t \in VoteTypes :
         VoteQuestionLoad(r, u, qid, t)
    \/ VoteQuestionSave(r)
    \/ VoteQuestionRespond(r)
    \/ \E u \in Voters, aid \in DOMAIN answers \cup {MissingId}, t \in VoteTypes :
         VoteAnswerLoad(r, u, aid, t)
    \/ VoteAnswerSave(r)
    \/ VoteAnswerRespond(r)
    \/ Finish(r)

SpecVote == InitVote /\ [][NextVote]_vars

\* ------------------------------------ the vote ledger, one request at a time
Snapshot ==
  [users |-> users, questions |-> questions, answers |-> answers,
   notifications |-> notifications]

\* The acceptance fields of a question and of an answer.
QuestionAcceptance(f) ==
  [isAnswered |-> f.isAnswered, acceptedAnswer |-> f.acceptedAnswer]

AnswerAcceptance(f) ==
  [isAccepted |-> f.isAccepted, acceptedAt |-> f.acceptedAt,
   acceptedBy |-> f.acceptedBy]

\* The next request arrives after the response: remember the request that
\* was handled and the acceptance fields it found, and the store the next
\* one finds.
FinishSeq(r) ==
  /\ req[r].pc = "done"
  /\ req' = [req EXCEPT ![r] = Idle]
  /\ last' = [req |-> req[r],
              questions |-> [id \in DOMAIN pre.questions |->
                               QuestionAcceptance(pre.questions[id])],
              answers |-> [id \in DOMAIN pre.answers |->
                             AnswerAcceptance(pre.answers[id])]]
  /\ pre' = Snapshot
  /\ UNCHANGED <<users, questions, answers, notifications>>

\* The same, for runs that do not look back at the request before.
FinishNext(r) ==
  /\ req[r].pc = "done"
  /\ req' = [req EXCEPT ![r] = Idle]
  /\ pre' = Snapshot
  /\ UNCHANGED <<users, questions, answers, notifications, last>>

InitVoteSeq ==
  /\ questions = [id \in {"q1"} |-> NewQuestion("u1")]
  /\ answers = [id \in {"a1"} |-> NewAnswer("q1", "u2")]
  /\ notifications = <<>>
  /\ users = [u \in Users |-> NewUser(Role[u])]
  /\ req = [r \in Reqs |-> Idle]
  /\ pre = Snapshot
  /\ last = NoLast

NextVoteSeq ==
  \/ \E u \in Voters, qid \in DOMAIN questions \cup {MissingId}, t \in VoteTypes :
       VoteQuestionLoad("r1", u, qid, t)
  \/ VoteQuestionSave("r1")
  \/ VoteQuestionRespond("r1")
  \/ \E u \in Voters, aid \in DOMAIN answers \cup {MissingId}, t \in VoteTypes :
       VoteAnswerLoad("r1", u, aid, t)
  \/ VoteAnswerSave("r1")
  \/ VoteAnswerRespond("r1")
  \/ FinishSeq("r1")

SpecVoteSeq == InitVoteSeq /\ [][NextVoteSeq]_vars

\* ------------------------------------------------ the acceptance protocol
\* q1 of u1 with the answers a1 (by u2) and a2 (by u1 itself).
InitAccept ==
  /\ questions = [id \in {"q1"} |-> NewQuestion("u1")]
  /\ answers = [id \in {"a1", "a2"} |->
                  NewAnswer("q1", IF id = "a1" THEN "u2" ELSE "u1")]
  /\ notifications = <<>>
  /\ users = [u \in Users |-> NewUser(Role[u])]
  /\ req = [r \in Reqs |-> Idle]
  /\ pre = NoSnapshot
  /\ last = NoLast

Accept(r) ==
  \/ \E u \in Users, aid \in DOMAIN answers \cup {MissingId} :
       AcceptLoadAnswer(r, u, aid)
  \/ AcceptLoadQuestion(r)
  \/ AcceptLoadPrevious(r)
  \/ AcceptUnacceptPrevious(r)
  \/ AcceptSaveAnswer(r)
  \/ AcceptSaveQuestion(r)
  \/ AcceptNotify(r)
  \/ AcceptRespond(r)

Unaccept(r) ==
  \/ \E u \in Users, aid \in DOMAIN answers \cup {MissingId} :
       UnacceptLoadAnswer(r, u, aid)
  \/ UnacceptLoadQuestion(r)
  \/ UnacceptSaveAnswer(r)
  \/ UnacceptSaveQuestion(r)
  \/ UnacceptRespond(r)

NextAccept == \E r \in Reqs : Accept(r) \/ Unaccept(r) \/ Finish(r)

SpecAccept == InitAccept /\ [][NextAccept]_vars

\* ------------------------------------------------------ answering a question
\* q1 of u1 is open, q2 of u2 is soft-deleted; nobody has answered yet.
InitAnswer ==
  /\ questions = [id \in {"q1", "q2"} |->
                    IF id = "q1" THEN NewQuestion("u1")
                    ELSE [NewQuestion("u2") EXCEPT !.isDeleted = TRUE]]
  /\ answers = <<>>
  /\ notifications = <<>>
  /\ users = [u \in Users |-> NewUser(Role[u])]
  /\ req = [r \in Reqs |-> Idle]
  /\ pre = NoSnapshot
  /\ last = NoLast

CreateAnswer(r) ==
  \/ \E u \in Users, qid \in DOMAIN questions \cup {MissingId},
        len \in ContentLengths :
       CreateAnswerLoadQuestion(r, u, qid, len)
  \/ CreateAnswerFindExisting(r)
  \/ CreateAnswerSave(r)
  \/ CreateAnswerPopulate(r)
  \/ CreateAnswerNotify(r)

DeleteAnswer(r) ==
  \/ \E u \in Users, aid \in DOMAIN answers \cup {MissingId},
        reason \in Reasons :
       DeleteAnswerLoad(r, u, aid, reason)
  \/ DeleteAnswerSave(r)

NextAnswer == \E r \in Reqs : CreateAnswer(r) \/ DeleteAnswer(r) \/ Finish(r)

SpecAnswer == InitAnswer /\ [][NextAnswer]_vars

\* ------------------------------------- the acceptance protocol, one request
\* at a time: q1 of u1 with the answers a1 (by u2) and a2 (by u1 itself),
\* q2 of u2 with the answer a3 (by u1).
InitAcceptSeq ==
  /\ questions = [id \in {"q1", "q2"} |->
                    NewQuestion(IF id = "q1" THEN "u1" ELSE "u2")]
  /\ answers = [id \in {"a1", "a2", "a3"} |->
                  IF id = "a1" THEN NewAnswer("q1", "u2")
                  ELSE IF id = "a2" THEN NewAnswer("q1", "u1")
                  ELSE NewAnswer("q2", "u1")]
  /\ notifications = <<>>
  /\ users = [u \in Users |-> NewUser(Role[u])]
  /\ req = [r \in Reqs |-> Idle]
  /\ pre = Snapshot
  /\ last = NoLast

NextAcceptSeq ==
  \/ Accept("r1")
  \/ Unaccept("r1")
  \/ DeleteAnswer("r1")
  \/ FinishSeq("r1")

SpecAcceptSeq == InitAcceptSeq /\ [][NextAcceptSeq]_vars

\* ------------------------------------- notifications with a failing push
\* q1 of u1 with the answer a1 (by u2); one request at a time.
InitPush ==
  /\ questions = [id \in {"q1"} |-> NewQuestion("u1")]
  /\ answers = [id \in {"a1"} |-> NewAnswer("q1", "u2")]
  /\ notifications = <<>>
  /\ users = [u \in Users |-> NewUser(Role[u])]
  /\ req = [r \in Reqs |-> Idle]
  /\ pre = Snapshot
  /\ last = NoLast

NextPush ==
  \/ CreateAnswer("r1")
  \/ CreateAnswerNotifyPushFails("r1")
  \/ Accept("r1")
  \/ AcceptNotifyPushFails("r1")
  \/ FinishSeq("r1")

SpecPush == InitPush /\ [][NextPush]_vars

\* ---------------------------------------- editing and deleting, in sequence
\* q1 of u1 with the answer a1 (by u2); u3 is an admin.
InitEdit ==
  /\ questions = [id \in {"q1"} |-> NewQuestion("u1")]
  /\ answers = [id \in {"a1"} |-> NewAnswer("q1", "u2")]
  /\ notifications = <<>>
  /\ users = [u \in Users |-> NewUser(Role[u])]
  /\ req = [r \in Reqs |-> Idle]
  /\ pre = Snapshot
  /\ last = NoLast

Bodies ==
  [title : Titles, description : Descriptions, tags : TagLists,
   editReason : Reasons]

UpdateQuestion(r) ==
  \/ \E u \in Users, qid \in DOMAIN questions \cup {MissingId},
        body \in Bodies, valid \in BOOLEAN :
       UpdateQuestionLoad(r, u, qid, body, valid)
  \/ UpdateQuestionSave(r)

DeleteQuestion(r) ==
  \/ \E u \in Users, qid \in DOMAIN questions \cup {MissingId},
        reason \in Reasons :
       DeleteQuestionLoad(r, u, qid, reason)
  \/ DeleteQuestionSave(r)

UpdateAnswer(r) ==
  \/ \E u \in Users, aid \in DOMAIN answers \cup {MissingId},
        content \in Contents, editReason \in Reasons, valid \in BOOLEAN :
       UpdateAnswerLoad(r, u, aid, content, editReason, valid)
  \/ UpdateAnswerSave(r)
  \/ UpdateAnswerRespond(r)

NextEdit ==
  \/ UpdateQuestion("r1")
  \/ DeleteQuestion("r1")
  \/ UpdateAnswer("r1")
  \/ DeleteAnswer("r1")
  \/ FinishNext("r1")

SpecEdit == InitEdit /\ [][NextEdit]_vars

\* ------------------------------------------------- reading after deleting
\* q1 of u1 with the answer a1 (by u2), q2 of u2 with the answer a2 (by u1).
InitRead ==
  /\ questions = [id \in {"q1", "q2"} |->
                    NewQuestion(IF id = "q1" THEN "u1" ELSE "u2")]
  /\ answers = [id \in {"a1", "a2"} |->
                  IF id = "a1" THEN NewAnswer("q1", "u2")
                  ELSE NewAnswer("q2", "u1")]
  /\ notifications = <<>>
  /\ users = [u \in Users |-> NewUser(Role[u])]
  /\ req = [r \in Reqs |-> Idle]
  /\ pre = Snapshot
  /\ last = NoLast

GetQuestion(r) ==
  \/ \E u \in Users, qid \in DOMAIN questions \cup {MissingId},
        strictPopulate \in BOOLEAN :
       GetQuestionLoad(r, u, qid, strictPopulate)
  \/ GetQuestionViews(r)

Read(r) ==
  \/ \E sort \in Sorts, tag \in TagQueries, page \in Pages, limit \in Limits :
       GetQuestions(r, sort, tag, page, limit)
  \/ GetQuestion(r)
  \/ \E uid \in Users \cup {MissingId} : GetUserProfile(r, uid)
  \/ \E uid \in Users, page \in Pages, limit \in Limits :
       GetUserQuestions(r, uid, page, limit)
  \/ \E uid \in Users, page \in Pages, limit \in Limits :
       GetUserAnswers(r, uid, page, limit)
  \/ \E u \in Users : GetStats(r, u)

NextRead ==
  \/ Read("r1")
  \/ DeleteQuestion("r1")
  \/ DeleteAnswer("r1")
  \/ FinishNext("r1")

SpecRead == InitRead /\ [][NextRead]_vars

\* ------------------------------------------------- reading notifications
\* u2 has answered q1 of u1 with a1 and u1 has accepted a1: each of them
\* has received the notification of the other's request.
InitNotify ==
  /\ questions = [id \in {"q1"} |->
                    [NewQuestion("u1") EXCEPT !.isAnswered = TRUE,
                                              !.acceptedAnswer = "a1"]]
  /\ answers = [id \in {"a1"} |->
                  [NewAnswer("q1", "u2") EXCEPT !.isAccepted = TRUE,
                                                !.acceptedAt = "date",
                                                !.acceptedBy = "u1"]]
  /\ notifications =
       <<Notification("u1", "u2", "answer_received", "q1", "a1"),
         Notification("u2", "u1", "answer_accepted", "q1", "a1")>>
  /\ users = [u \in Users |-> NewUser(Role[u])]
  /\ req = [r \in Reqs |-> Idle]
  /\ pre = Snapshot
  /\ last = NoLast

Segments == NotificationIds \cup {MissingId, ClearAll}

MarkRead(r) ==
  \/ \E u \in Users, nid \in NotificationIds \cup {MissingId} :
       NotificationLoad(r, "markRead", u, nid, Null)
  \/ MarkReadSave(r)

MarkUnread(r) ==
  \/ \E u \in Users, nid \in NotificationIds \cup {MissingId} :
       NotificationLoad(r, "markUnread", u, nid, Null)
  \/ MarkUnreadSave(r)

DeleteNotification(r) ==
  \/ \E u \in Users, segment \in Segments, removeSupported \in BOOLEAN :
       DeleteRoute(r, u, segment, removeSupported)
  \/ DeleteNotificationRemove(r)

NextNotify ==
  \/ MarkRead("r1")
  \/ MarkUnread("r1")
  \/ \E u \in Users : MarkAllRead("r1", u)
  \/ DeleteNotification("r1")
  \/ FinishNext("r1")

SpecNotify == InitNotify /\ [][NextNotify]_vars

\* ------------------------------------------------------------ moderation
\* u1 and u2 are users, u3 is an admin; nobody is banned.
InitBan ==
  /\ questions = [id \in {"q1"} |-> NewQuestion("u1")]
  /\ answers = [id \in {"a1"} |-> NewAnswer("q1", "u2")]
  /\ notifications = <<>>
  /\ users = [u \in Users |-> NewUser(Role[u])]
  /\ req = [r \in Reqs |-> Idle]
  /\ pre = Snapshot
  /\ last = NoLast

Ban(r) ==
  \/ \E u \in Users, uid \in Users \cup {MissingId}, reason \in BanReasons :
       BanLoad(r, u, uid, reason)
  \/ BanSave(r)

Unban(r) ==
  \/ \E u \in Users, uid \in Users \cup {MissingId} : UnbanLoad(r, u, uid)
  \/ UnbanSave(r)

NextBan == Ban("r1") \/ Unban("r1") \/ FinishNext("r1")

SpecBan == InitBan /\ [][NextBan]_vars

\* ---------------------------------------------------------------- ledger
Count(s, userId) == Cardinality({i \in 1..Len(s) : s[i] = userId})

Entries(f, userId) == Count(f.upvotes, userId) + Count(f.downvotes, userId)

VoteKinds == {"voteQuestion", "voteAnswer"}

Stored(q) ==
  IF q.kind = "voteQuestion" THEN questions[q.target] ELSE answers[q.target]

\* C2: in every reachable state every voter has at most one entry in the
\* upvotes and downvotes of a question or an answer taken together.
C2_OneEntryPerVoter ==
  /\ \A id \in DOMAIN questions : \A u \in Users : Entries(questions[id], u) <= 1
  /\ \A id \in DOMAIN answers : \A u \in Users : Entries(answers[id], u) <= 1

\* Two vote requests of different voters on one record, both answered with
\* success, where both had loaded the record before either saved it.
Interleaved(r1, r2) ==
  /\ r1 # r2
  /\ req[r1].kind \in VoteKinds /\ req[r2].kind = req[r1].kind
  /\ req[r1].target = req[r2].target
  /\ req[r1].user # req[r2].user
  /\ req[r1].pc = "done" /\ req[r1].status = 200
  /\ req[r2].pc = "done" /\ req[r2].status = 200
  /\ r2 \in req[r1].overlap

\* The vote the request cast is in the set it was cast into.
VoteStands(q) ==
  /\ q.arg = "upvote" => Some(Stored(q).upvotes, q.user)
  /\ q.arg = "downvote" => Some(Stored(q).downvotes, q.user)

\* C3: when the vote requests of two different voters on one record
\* interleave and both return success, the ledger holds the outcome of both.
C3_NoLostVote ==
  \A r1, r2 \in Reqs :
    Interleaved(r1, r2) => VoteStands(req[r1]) /\ VoteStands(req[r2])

C3_Witness ==
  \E r1, r2 \in Reqs :
    /\ Interleaved(r1, r2)
    /\ req[r1].arg # "remove" /\ req[r2].arg # "remove"
    /\ VoteStands(req[r1]) /\ VoteStands(req[r2])

\* ------------------------------------------------------------ acceptance
AnswersOf(qid) == {a \in DOMAIN answers : answers[a].question = qid}

AcceptedOf(qid) == {a \in AnswersOf(qid) : answers[a].isAccepted}

\* C1: in every reachable state, between the writes of a request and under
\* any interleaving of accept and unaccept requests, at most one answer of
\* a question has isAccepted = TRUE.
C1_AtMostOneAccepted ==
  \A qid \in DOMAIN questions : Cardinality(AcceptedOf(qid)) <= 1

\* The request of connection r has been answered.
Done(r, kind) == req[r].pc = "done" /\ req[r].kind = kind

\* The answer and its question were there, not soft-deleted, on arrival.
Found(aid) ==
  /\ aid \in DOMAIN pre.answers
  /\ ~pre.answers[aid].isDeleted
  /\ pre.answers[aid].question \in DOMAIN pre.questions
  /\ ~pre.questions[pre.answers[aid].question].isDeleted

Cleared == [isAccepted |-> FALSE, acceptedAt |-> Null, acceptedBy |-> Null]

AcceptedTwice(r) ==
  /\ Done(r, "accept") /\ req[r].status = 200
  /\ last.req.kind = "accept" /\ last.req.status = 200
  /\ last.req.target # req[r].target
  /\ answers[last.req.target].question = answers[req[r].target].question

\* C4: after accept(A1) and then accept(A2) on the same question, both run
\* to completion, A2 is the only accepted answer of the question, A1 is
\* unaccepted with acceptedAt and acceptedBy cleared, and the question
\* points at A2.
C4_SecondAcceptWins ==
  \A r \in Reqs :
    AcceptedTwice(r) =>
      LET A1 == last.req.target
          A2 == req[r].target
          Q == answers[A2].question
      IN  /\ AcceptedOf(Q) = {A2}
          /\ AnswerAcceptance(answers[A1]) = Cleared
          /\ questions[Q].acceptedAnswer = A2

C4_Witness ==
  \E r \in Reqs :
    /\ AcceptedTwice(r)
    /\ answers[req[r].target].isAccepted
    /\ ~answers[last.req.target].isAccepted

AcceptOfUnanswered(r) ==
  /\ Done(r, "accept")
  /\ Found(req[r].target)
  /\ LET Q == pre.answers[req[r].target].question
     IN  /\ pre.questions[Q].author = req[r].user
         /\ pre.questions[Q].acceptedAnswer = Null

\* C5: accept of a non-deleted answer A by the author of its question Q,
\* while Q has no accepted answer, succeeds; afterwards A is accepted by the
\* requester, Q is answered and points at A, and no other answer or question
\* has changed.
C5_AcceptEffect ==
  \A r \in Reqs :
    AcceptOfUnanswered(r) =>
      LET A == req[r].target
          Q == answers[A].question
      IN  /\ req[r].status = 200
          /\ answers[A].isAccepted /\ answers[A].acceptedBy = req[r].user
          /\ questions[Q].isAnswered /\ questions[Q].acceptedAnswer = A
          /\ DOMAIN answers = DOMAIN pre.answers
          /\ DOMAIN questions = DOMAIN pre.questions
          /\ \A a \in DOMAIN answers \ {A} : answers[a] = pre.answers[a]
          /\ \A q \in DOMAIN questions \ {Q} : questions[q] = pre.questions[q]

C5_Witness ==
  \E r \in Reqs :
    /\ AcceptOfUnanswered(r)
    /\ req[r].status = 200
    /\ answers[req[r].target].author # req[r].user
    /\ answers[req[r].target].isAccepted

UnacceptEffect(r) ==
  LET A == req[r].target
      Q == answers[A].question
  IN  /\ QuestionAcceptance(questions[Q])
           = [isAnswered |-> FALSE, acceptedAnswer |-> Null]
      /\ AnswerAcceptance(answers[A]) = Cleared

AfterAcceptOfSame(r) ==
  /\ last.req.kind = "accept" /\ last.req.status = 200
  /\ last.req.target = req[r].target

Restored(r) ==
  LET A == req[r].target
      Q == answers[A].question
  IN  /\ QuestionAcceptance(questions[Q]) = last.questions[Q]
      /\ AnswerAcceptance(answers[A]) = last.answers[A]

\* C6 as claimed: a successful unaccept(A) leaves the question unanswered
\* and A unaccepted, and accept(A) followed by unaccept(A) restores the
\* acceptance fields of the question and of A to their values before the
\* accept.
C6_RoundTrip ==
  \A r \in Reqs :
    Done(r, "unaccept") /\ req[r].status = 200 =>
      /\ UnacceptEffect(r)
      /\ AfterAcceptOfSame(r) => Restored(r)

\* C6, amended: a successful unaccept(A) leaves the question unanswered and
\* A unaccepted; accept(A) followed by unaccept(A) restores the acceptance
\* fields of the question and of A to their values before the accept when
\* the question had no accepted answer before the accept.
C6_RoundTripFromUnanswered ==
  \A r \in Reqs :
    Done(r, "unaccept") /\ req[r].status = 200 =>
      /\ UnacceptEffect(r)
      /\ (/\ AfterAcceptOfSame(r)
          /\ last.questions[answers[req[r].target].question].acceptedAnswer
               = Null)
         => Restored(r)

C6_Witness ==
  \E r \in Reqs :
    /\ Done(r, "unaccept") /\ req[r].status = 200
    /\ AfterAcceptOfSame(r)
    /\ last.questions[answers[req[r].target].question].acceptedAnswer = Null
    /\ Restored(r)

UnacceptOfOther(r) ==
  /\ Done(r, "unaccept")
  /\ Found(req[r].target)
  /\ LET Q == pre.answers[req[r].target].question
     IN  /\ pre.questions[Q].author = req[r].user
         /\ pre.questions[Q].acceptedAnswer # req[r].target

\* C7: unaccept(A) by the question's author, when A is not the accepted
\* answer of the question, fails with 400 and changes nothing, whatever
\* accept and unaccept requests came before.
C7_UnacceptNotAccepted ==
  \A r \in Reqs :
    UnacceptOfOther(r) => req[r].status = 400 /\ Snapshot = pre

C7_Witness ==
  \E r \in Reqs :
    /\ UnacceptOfOther(r)
    /\ pre.questions[pre.answers[req[r].target].question].acceptedAnswer # Null
    /\ req[r].status = 400

ByNonAuthor(q) ==
  /\ q.pc = "done" /\ q.kind \in {"accept", "unaccept"}
  /\ q.target \in DOMAIN answers
  /\ questions[answers[q.target].question].author # q.user

\* C8: accept and unaccept by a requester who is not the author of the
\* answer's question, an admin and the answer's author included, fail with
\* 403 and create or change nothing.
C8_OnlyQuestionAuthor ==
  \A r \in Reqs :
    ByNonAuthor(req[r]) /\ Found(req[r].target) =>
      req[r].status = 403 /\ Snapshot = pre

C8_Witness ==
  \E r \in Reqs :
    /\ ByNonAuthor(req[r]) /\ Found(req[r].target)
    /\ req[r].status = 403
    /\ answers[req[r].target].author = req[r].user
    /\ ByNonAuthor(last.req) /\ last.req.status = 403
    /\ Role[last.req.user] = "admin"

\* ------------------------------------------------------------- answering
LiveAnswersBy(userId, qid) ==
  {a \in AnswersOf(qid) : answers[a].author = userId /\ ~answers[a].isDeleted}

\* C9: in every reachable state an author has at most one non-deleted
\* answer on a question, also when two of the author's POST /answers
\* requests for the question interleave.
C9_OneAnswerPerAuthor ==
  \A u \in Users : \A qid \in DOMAIN questions :
    Cardinality(LiveAnswersBy(u, qid)) <= 1

Received(aid) ==
  {i \in 1..Len(notifications) :
     /\ notifications[i].relatedAnswer = aid
     /\ notifications[i].type = "answer_received"}

Posted(r) == Done(r, "createAnswer") /\ req[r].status = 201

\* C10: a successful POST /answers by B on a question of A creates exactly
\* one notification (recipient A, sender B, type answer_received, the
\* question and the new answer) when A differs from B and none when A is B;
\* a POST /answers that fails creates none.
C10_AnswerReceived ==
  \A r \in Reqs :
    /\ Posted(r) =>
         LET id == req[r].ans.id
             A == questions[req[r].target].author
             B == req[r].user
             n == Notification(A, B, "answer_received", req[r].target, id)
         IN  /\ id \in DOMAIN answers
             /\ answers[id].author = B /\ answers[id].question = req[r].target
             /\ IF A # B
                  THEN /\ req[r].created = <<n>>
                       /\ Cardinality(Received(id)) = 1
                       /\ \A i \in Received(id) : notifications[i] = n
                  ELSE /\ req[r].created = <<>>
                       /\ Received(id) = {}
    /\ Done(r, "createAnswer") /\ req[r].status # 201 =>
         req[r].created = <<>> /\ ~req[r].wrote

C10_Witness ==
  \E r1, r2 \in Reqs :
    /\ Posted(r1) /\ questions[req[r1].target].author # req[r1].user
    /\ Cardinality(Received(req[r1].ans.id)) = 1
    /\ Posted(r2) /\ questions[req[r2].target].author = req[r2].user
    /\ Received(req[r2].ans.id) = {}

\* ---------------------------------------------------------- notifications
Accepted(q) == q.pc = "done" /\ q.kind = "accept" /\ q.status = 200

\* C11: a successful accept of answer A by the question's author creates
\* exactly one notification (recipient A's author, sender the requester,
\* type answer_accepted) when A's author differs from the requester and
\* none when the requester authored A; an accept answered 403 or 404
\* creates none.
C11_AnswerAccepted ==
  \A r \in Reqs :
    Done(r, "accept") =>
      LET A == req[r].target
          n == Notification(answers[A].author, req[r].user, "answer_accepted",
                            answers[A].question, A)
      IN  IF req[r].status = 200
            THEN notifications =
                   pre.notifications
                     \o (IF answers[A].author # req[r].user THEN <<n>> ELSE <<>>)
            ELSE req[r].status \in {403, 404} /\ notifications = pre.notifications

C11_Witness ==
  \E r \in Reqs :
    /\ Accepted(req[r])
    /\ answers[req[r].target].author # req[r].user
    /\ Len(notifications) = Len(pre.notifications) + 1
    /\ Accepted(last.req)
    /\ answers[last.req.target].author = last.req.user

\* C12: a successful unaccept of answer A by the question's author leaves a
\* notification to A's author that was not there when the request arrived,
\* unless the requester authored A.
C12_UnacceptNotifies ==
  \A r \in Reqs :
    (/\ Done(r, "unaccept") /\ req[r].status = 200
     /\ answers[req[r].target].author # req[r].user)
      => /\ Len(notifications) > Len(pre.notifications)
         /\ notifications[Len(notifications)].recipient
              = answers[req[r].target].author

Notifying(q) == q.pc = "done" /\ q.kind \in {"accept", "createAnswer"}

\* C13: a request that persisted a notification (answer posted, answer
\* accepted) returns its success response and the notification stays
\* persisted, whether the real-time push that follows is delivered, finds
\* no connection or fails.
C13_PushFailureIgnored ==
  \A r \in Reqs :
    Notifying(req[r]) /\ req[r].created # <<>> =>
      /\ req[r].status \in {200, 201}
      /\ notifications = pre.notifications \o req[r].created

\* ------------------------------------------------- the ledger, sequentially
Voted(q) == q.pc = "done" /\ q.kind \in VoteKinds /\ q.status = 200

\* The ledger of the request's record when the request arrived.
Before(q) ==
  IF q.kind = "voteQuestion" THEN pre.questions[q.target]
  ELSE pre.answers[q.target]

Opposite(t) == IF t = "upvote" THEN "downvote" ELSE "upvote"

Switched(q) ==
  /\ Voted(q) /\ q.arg \in {"upvote", "downvote"}
  /\ hasUserVoted(Before(q), q.user) = Opposite(q.arg)

\* C14: when a voter who has an upvote on a record casts a downvote on it
\* (or the reverse), the ledger then holds exactly one entry of the voter,
\* in the requested set, and the entries of all other voters are as before.
C14_SwitchVote ==
  \A r \in Reqs :
    Switched(req[r]) =>
      LET q == req[r]
          f == Stored(q)
      IN  /\ Entries(f, q.user) = 1
          /\ hasUserVoted(f, q.user) = q.arg
          /\ Filter(f.upvotes, q.user) = Filter(Before(q).upvotes, q.user)
          /\ Filter(f.downvotes, q.user) = Filter(Before(q).downvotes, q.user)

C14_Witness ==
  \E r \in Reqs :
    /\ Switched(req[r])
    /\ req[r].arg = "downvote"
    /\ Some(Stored(req[r]).downvotes, req[r].user)
    /\ \E w \in Voters \ {req[r].user} : Some(Stored(req[r]).upvotes, w)

VoterSet(s) == {s[i] : i \in 1..Len(s)}

\* The request repeats the vote request handled just before it.
Repeated(q) ==
  /\ Voted(q) /\ Voted(last.req)
  /\ last.req.kind = q.kind /\ last.req.target = q.target
  /\ last.req.user = q.user /\ last.req.arg = q.arg

\* C15: casting the same vote twice in a row leaves the same set of
\* upvoters, the same set of downvoters and the same voteCount as casting
\* it once; removing a vote twice equals removing it once.
C15_Idempotent ==
  \A r \in Reqs :
    Repeated(req[r]) =>
      LET f == Stored(req[r])
          g == Before(req[r])
      IN  /\ VoterSet(f.upvotes) = VoterSet(g.upvotes)
          /\ VoterSet(f.downvotes) = VoterSet(g.downvotes)
          /\ voteCount(f) = voteCount(g)

C15_Witness ==
  \E r \in Reqs :
    /\ Repeated(req[r]) /\ req[r].arg = "upvote"
    /\ VoterSet(Stored(req[r]).upvotes) = Voters
    /\ voteCount(Stored(req[r])) = 2

\* ------------------------------------------------- editing and deleting
UpdateKinds == {"updateQuestion", "updateAnswer"}

DeleteKinds == {"deleteQuestion", "deleteAnswer"}

\* A PUT or DELETE with a well-formed body whose record was there, not
\* soft-deleted, when the request arrived.
OnRecord(q) ==
  /\ q.pc = "done" /\ q.kind \in UpdateKinds \cup DeleteKinds
  /\ q.kind \in UpdateKinds => q.arg.valid
  /\ IF q.kind \in {"updateQuestion", "deleteQuestion"}
       THEN q.target \in DOMAIN pre.questions
            /\ ~pre.questions[q.target].isDeleted
       ELSE q.target \in DOMAIN pre.answers
            /\ ~pre.answers[q.target].isDeleted

RecordAuthor(q) ==
  IF q.kind \in {"updateQuestion", "deleteQuestion"}
    THEN pre.questions[q.target].author
    ELSE pre.answers[q.target].author

Allowed(q) == RecordAuthor(q) = q.user \/ Role[q.user] = "admin"

\* C16: a PUT or DELETE on a question or an answer by a caller who is
\* neither the record's author nor an admin returns 403 and leaves the
\* record, as everything else, unchanged; the author and any admin are not
\* refused, and a DELETE of theirs soft-deletes the record.
C16_AuthorOrAdmin ==
  \A r \in Reqs :
    OnRecord(req[r]) =>
      IF Allowed(req[r])
        THEN /\ req[r].status \in {200, 400}
             /\ req[r].kind \in DeleteKinds => req[r].status = 200
             /\ req[r].status = 400 => Snapshot = pre
        ELSE req[r].status = 403 /\ Snapshot = pre

C16_Witness ==
  \E r \in Reqs :
    /\ OnRecord(req[r]) /\ req[r].kind = "updateQuestion"
    /\ ~Allowed(req[r]) /\ req[r].status = 403
    /\ req[r].arg.title # Null
    /\ \E a \in DOMAIN answers :
         answers[a].isDeleted /\ answers[a].deletedBy = "u3"

\* ---------------------------------------------------------------- reading
ReadKinds ==
  {"getQuestions", "getQuestion", "getUserProfile", "getUserQuestions",
   "getUserAnswers", "getStats"}

\* C17: no response of a listing or detail read contains a soft-deleted
\* question or answer, as an entry or populated inside one.
C17_DeletedNeverReturned ==
  \A r \in Reqs :
    req[r].pc = "done" /\ req[r].kind \in ReadKinds =>
      /\ \A id \in req[r].res.questions : ~questions[id].isDeleted
      /\ \A id \in req[r].res.answers : ~answers[id].isDeleted

\* ---------------------------------------------------- notification state
SingleKinds == {"markRead", "markUnread", "deleteNotification"}

\* A request on a single notification that was stored when it arrived.
OnNotification(q) ==
  /\ q.pc = "done" /\ q.kind \in SingleKinds
  /\ q.target \in NotificationIds
  /\ pre.notifications[IndexOf(q.target)] # Removed

\* C18: marking read, marking unread or deleting a notification by a
\* caller who is not its recipient fails with 403 and changes nothing.
C18_OnlyRecipient ==
  \A r \in Reqs :
    (/\ OnNotification(req[r])
     /\ pre.notifications[IndexOf(req[r].target)].recipient # req[r].user)
      => req[r].status = 403 /\ Snapshot = pre

C18_Witness ==
  \E r \in Reqs :
    /\ OnNotification(req[r]) /\ req[r].kind = "deleteNotification"
    /\ notifications[IndexOf(req[r].target)].recipient # req[r].user
    /\ notifications[IndexOf(req[r].target)].isRead
    /\ req[r].status = 403
    /\ Removed \in Range(notifications)

\* The notifications of the other recipients are as they were on arrival.
OthersUntouched(userId) ==
  /\ Len(notifications) = Len(pre.notifications)
  /\ \A i \in 1..Len(notifications) :
       pre.notifications[i].recipient # userId
         => notifications[i] = pre.notifications[i]

\* C19: PUT /mark-all-read and DELETE /clear-all reach their own handlers
\* and succeed; afterwards every notification of the caller is read, or
\* respectively removed, and no notification of another recipient has
\* changed.
C19_BulkOwnOnly ==
  \A r \in Reqs :
    /\ Done(r, "markAllRead") =>
         /\ req[r].status = 200
         /\ \A i \in 1..Len(notifications) :
              notifications[i].recipient = req[r].user
                => notifications[i].isRead
         /\ OthersUntouched(req[r].user)
    /\ (req[r].pc = "done" /\ req[r].kind \in {"deleteNotification", "clearAll"}
         /\ req[r].target \in {ClearAll, Null}) =>
         /\ req[r].kind = "clearAll" /\ req[r].status = 200
         /\ \A i \in 1..Len(notifications) :
              notifications[i].recipient # req[r].user
         /\ OthersUntouched(req[r].user)

\* ------------------------------------------------------------ moderation
\* C20: PUT /users/:id/ban fails with 400 when no reason is given and with
\* 403 when the target is an admin, and leaves the target as it was; on a
\* target that is no admin, with a reason, it sets isBanned and banReason.
C20_Ban ==
  \A r \in Reqs :
    Done(r, "ban") /\ req[r].target \in DOMAIN users =>
      LET target == req[r].target
      IN  IF req[r].arg = ""
            THEN req[r].status = 400 /\ Snapshot = pre
          ELSE IF pre.users[target].role = "admin"
            THEN req[r].status = 403 /\ Snapshot = pre
          ELSE /\ req[r].status = 200
               /\ users[target].isBanned
               /\ users[target].banReason = req[r].arg
               /\ \A u \in Users \ {target} : users[u] = pre.users[u]

C20_Witness ==
  \E r \in Reqs :
    /\ Done(r, "ban") /\ req[r].status = 403
    /\ req[r].arg # ""
    /\ users[req[r].target].role = "admin"
    /\ \E u \in Users : users[u].isBanned /\ users[u].banReason = "spam"

\* ------------------------------------------- viewing a question, two at once
\* q1 of u1, read over two connections.
InitView ==
  /\ questions = [id \in {"q1"} |-> NewQuestion("u1")]
  /\ answers = [id \in {"a1"} |-> NewAnswer("q1", "u2")]
  /\ notifications = <<>>
  /\ users = [u \in Users |-> NewUser(Role[u])]
  /\ req = [r \in Reqs |-> Idle]
  /\ pre = NoSnapshot
  /\ last = NoLast

NextView ==
  \E r \in Reqs :
    \/ GetQuestion(r)
    \/ DeleteQuestion(r)
    \/ Finish(r)

SpecView == InitView /\ [][NextView]_vars

NoChange(q) ==
  /\ OnRecord(q) /\ q.kind \in UpdateKinds /\ Allowed(q)
  /\ IF q.kind = "updateQuestion"
       THEN LET f == pre.questions[q.target]
            IN  /\ q.arg.title # Null => q.arg.title = f.title
                /\ q.arg.description # Null => q.arg.description = f.description
                /\ q.arg.tags # Null => q.arg.tags = f.tags
       ELSE q.arg.content = pre.answers[q.target].content

\* C22: an edit request with zero changed fields answers 400 and leaves the
\* record as it was: isEdited keeps its value, no history entry is added.
C22_NoOpEditRefused ==
  \A r \in Reqs :
    NoChange(req[r]) => req[r].status = 400 /\ Snapshot = pre

\* ---------------------------------------------------- POST /api/questions
\* body('tags').isArray({min: 1, max: 5}) and
\* body('tags.*').isLength({min: 2, max: 20}), on the tags as submitted
validTags(tags) ==
  /\ Len(tags) \in MinTags..MaxTags
  /\ \A i \in 1..Len(tags) : Len(tags[i]) \in MinTagLength..MaxTagLength

QuestionBudget ==
  Cardinality(DOMAIN questions)
    + Cardinality({r \in Reqs : InFlight(r) /\ req[r].kind = "createQuestion"})
    < MaxQuestions

\* validationResult(req), then new Question({title, description,
\* tags: normalizedTags, author}) and await question.save()
CreateQuestionSave(r, u, tags, valid) ==
  /\ req[r].pc = "idle"
  /\ QuestionBudget
  /\ LET q == Start("createQuestion", u, Null, [tags |-> tags, valid |-> valid])
         id == QuestionIdSeq[Cardinality(DOMAIN questions) + 1]
         question == [NewQuestion(u) EXCEPT !.tags = normalTags(tags)]
     IN  IF ~valid
           THEN /\ req' = [req EXCEPT ![r] = Respond(q, 400)]
                /\ UNCHANGED questions
           ELSE /\ questions' = [x \in DOMAIN questions \cup {id} |->
                                   IF x = id THEN question ELSE questions[x]]
                /\ req' = [req EXCEPT ![r] =
                     [q EXCEPT !.pc = "populate", !.target = id,
                               !.wrote = TRUE]]
  /\ UNCHANGED <<answers, notifications, hist>>

\* await question.populate('author'), then res.status(201)
CreateQuestionRespond(r) ==
  /\ req[r].kind = "createQuestion" /\ req[r].pc = "populate"
  /\ req' = [req EXCEPT ![r] = Respond(req[r], 201)]
  /\ UNCHANGED <<questions, answers, notifications, hist>>

\* ------------------------------------------- the tags of stored questions
\* req.body.tags as they may be submitted
RawTagLists ==
  {<<>>, <<"x">>, <<"a ">>, <<"Go ">>, <<"js", " JS">>,
   <<"aa", "bb", "cc", "dd", "ee", "ff">>}

InitTags ==
  /\ questions = [id \in {"q1"} |-> NewQuestion("u1")]
  /\ answers = [id \in {"a1"} |-> NewAnswer("q1", "u2")]
  /\ notifications = <<>>
  /\ users = [u \in Users |-> NewUser(Role[u])]
  /\ req = [r \in Reqs |-> Idle]
  /\ pre = Snapshot
  /\ last = NoLast

CreateQuestion(r) ==
  \/ \E u \in Users, tags \in RawTagLists :
       CreateQuestionSave(r, u, tags, validTags(tags))
  \/ CreateQuestionRespond(r)

UpdateQuestionTags(r) ==
  \/ \E u \in Users, qid \in DOMAIN questions, tags \in RawTagLists,
        title \in Titles :
       UpdateQuestionLoad(r, u, qid,
                          [title |-> title, description |-> Null,
                           tags |-> tags, editReason |-> Null],
                          validTags(tags))
  \/ UpdateQuestionSave(r)

NextTags ==
  \/ CreateQuestion("r1")
  \/ UpdateQuestionTags("r1")
  \/ FinishNext("r1")

SpecTags == InitTags /\ [][NextTags]_vars

\* C23: every stored question that is not deleted has 1 to 5 tags, each
\* lowercase, trimmed and 2 to 20 characters long.
C23_TagsWellFormed ==
  \A id \in DOMAIN questions :
    ~questions[id].isDeleted =>
      LET tags == questions[id].tags
      IN  /\ Len(tags) \in MinTags..MaxTags
          /\ \A i \in 1..Len(tags) :
               /\ tags[i] = toLowerCase(tags[i])
               /\ tags[i] = trim(tags[i])
               /\ Len(tags[i]) \in MinTagLength..MaxTagLength

\* ------------------------------------------------------- a rejected await
\* A failure that undoes what the handler wrote before it.
FailsRollsBack(r) ==
  /\ InFlight(r)
  /\ req' = [req EXCEPT ![r] =
       Respond([req[r] EXCEPT !.failed = req[r].pc], 500)]
  /\ questions' = pre.questions
  /\ answers' = pre.answers
  /\ notifications' = pre.notifications
  /\ UNCHANGED hist

\* The promise awaited at the current step rejects (the store refuses the
\* read or the write): control passes to the handler's catch, which logs the
\* error and answers 500.  Nothing is retried and nothing is undone.
Fails(r) ==
  /\ InFlight(r)
  /\ req' = [req EXCEPT ![r] =
       Respond([req[r] EXCEPT !.failed = req[r].pc], 500)]
  /\ UNCHANGED <<questions, answers, notifications>>
  /\ UNCHANGED hist

\* q1 of u1 with the answer a1 (by u2); one request at a time.
InitFault ==
  /\ questions = [id \in {"q1"} |-> NewQuestion("u1")]
  /\ answers = [id \in {"a1"} |-> NewAnswer("q1", "u2")]
  /\ notifications = <<>>
  /\ users = [u \in Users |-> NewUser(Role[u])]
  /\ req = [r \in Reqs |-> Idle]
  /\ pre = Snapshot
  /\ last = NoLast

\* The requests of the question's author u1 and of the voter and answerer u3.
AuthorAccept(r) ==
  \/ \E aid \in DOMAIN answers : AcceptLoadAnswer(r, "u1", aid)
  \/ AcceptLoadQuestion(r)
  \/ AcceptLoadPrevious(r)
  \/ AcceptUnacceptPrevious(r)
  \/ AcceptSaveAnswer(r)
  \/ AcceptSaveQuestion(r)
  \/ AcceptNotify(r)
  \/ AcceptRespond(r)

AuthorUnaccept(r) ==
  \/ \E aid \in DOMAIN answers : UnacceptLoadAnswer(r, "u1", aid)
  \/ UnacceptLoadQuestion(r)
  \/ UnacceptSaveAnswer(r)
  \/ UnacceptSaveQuestion(r)
  \/ UnacceptRespond(r)

FaultCreateAnswer(r) ==
  \/ CreateAnswerLoadQuestion(r, "u3", "q1", MinAnswerLength)
  \/ CreateAnswerFindExisting(r)
  \/ CreateAnswerSave(r)
  \/ CreateAnswerPopulate(r)
  \/ CreateAnswerNotify(r)

FaultVoteAnswer(r) ==
  \/ \E t \in {"upvote", "remove"} : VoteAnswerLoad(r, "u3", "a1", t)
  \/ VoteAnswerSave(r)
  \/ VoteAnswerRespond(r)

NextFault ==
  \/ AuthorAccept("r1")
  \/ AuthorUnaccept("r1")
  \/ FaultCreateAnswer("r1")
  \/ FaultVoteAnswer("r1")
  \/ Fails("r1")
  \/ FinishNext("r1")

SpecFault == InitFault /\ [][NextFault]_vars

\* ------------------------------------------------------ failing half-way
\* The request ended in the catch of its handler.
Failed(q) == q.pc = "done" /\ q.failed # Null

\* The steps of accept after which the previous answer is unaccepted, the
\* answer is accepted, the question is updated.
AfterUnacceptPrevious == {"accept", "saveQuestion", "notify", "respond"}

AfterAcceptAnswer == {"saveQuestion", "notify", "respond"}

AfterSaveQuestion == {"notify", "respond"}

FailedAccept(q) ==
  LET A == q.target
      Q == pre.answers[A].question
      B == pre.questions[Q].acceptedAnswer
  IN  /\ q.failed \in AfterUnacceptPrevious /\ B \in DOMAIN answers /\ B # A
           => ~answers[B].isAccepted /\ answers[B].acceptedBy = Null
      /\ q.failed \in AfterAcceptAnswer /\ B # A
           => answers[A].isAccepted /\ answers[A].acceptedBy = q.user
      /\ q.failed \notin AfterAcceptAnswer
           => AnswerAcceptance(answers[A]) = AnswerAcceptance(pre.answers[A])
                \/ (A = B /\ q.failed = "accept")
      /\ IF q.failed \in AfterSaveQuestion
           THEN questions[Q].isAnswered /\ questions[Q].acceptedAnswer = A
           ELSE questions = pre.questions
      /\ q.failed = "notify" => notifications = pre.notifications

FailedUnaccept(q) ==
  LET A == q.target
      Q == pre.answers[A].question
  IN  /\ IF q.failed \in {"saveQuestion", "respond"}
           THEN ~answers[A].isAccepted /\ answers[A].acceptedBy = Null
           ELSE answers = pre.answers
      /\ IF q.failed = "respond"
           THEN ~questions[Q].isAnswered /\ questions[Q].acceptedAnswer = Null
           ELSE questions = pre.questions

FailedCreateAnswer(q) ==
  IF q.failed \in {"populate", "notify"}
    THEN /\ \E a \in DOMAIN answers \ DOMAIN pre.answers :
              answers[a].author = q.user /\ answers[a].question = q.target
         /\ notifications = pre.notifications
    ELSE Snapshot = pre

FailedVote(q) ==
  IF q.failed = "respond"
    THEN q.wrote => answers[q.target] # pre.answers[q.target]
    ELSE Snapshot = pre

\* C24: when a read, a write or the notification step of accept, unaccept,
\* create answer or vote fails, the one response is the error 500, and what
\* the handler had written before the failure stays written.
C24_NoPartialSuccess ==
  \A r \in Reqs :
    Failed(req[r]) =>
      /\ req[r].status = 500
      /\ req[r].kind = "accept" => FailedAccept(req[r])
      /\ req[r].kind = "unaccept" => FailedUnaccept(req[r])
      /\ req[r].kind = "createAnswer" => FailedCreateAnswer(req[r])
      /\ req[r].kind = "voteAnswer" => FailedVote(req[r])

\* accept(a1) wrote the answer, then the save of the question failed: the
\* answer is accepted, the question is not answered, the response is 500.
C24_Witness ==
  \E r \in Reqs :
    /\ Failed(req[r]) /\ req[r].kind = "accept"
    /\ req[r].failed = "saveQuestion" /\ req[r].status = 500
    /\ answers[req[r].target].isAccepted
    /\ ~questions[answers[req[r].target].question].isAnswered

\* ------------------------------------------------ accepting what is accepted
\* A successful accept of the answer that was the question's accepted
\* answer when the request arrived.
AcceptOfAccepted(q) ==
  /\ q.pc = "done" /\ q.kind = "accept" /\ q.status = 200
  /\ pre.answers[q.target].isAccepted
  /\ pre.questions[pre.answers[q.target].question].acceptedAnswer = q.target

\* C25: accepting the answer that is already the question's accepted answer
\* leaves it accepted: isAccepted is true, acceptedBy is the question's
\* author, and the question is answered by it.
C25_AcceptAgain ==
  \A r \in Reqs :
    AcceptOfAccepted(req[r]) =>
      LET A == req[r].target
          Q == answers[A].question
      IN  /\ answers[A].isAccepted
          /\ answers[A].acceptedBy = questions[Q].author
          /\ questions[Q].isAnswered
          /\ questions[Q].acceptedAnswer = A

\* ------------------------------------------------- both sides of acceptance
\* No request is in flight.
Quiescent == \A r \in Reqs : ~InFlight(r)

\* C26: when no request is in flight, a question is answered exactly when
\* it names an accepted answer, and it names the answer A exactly when A is
\* an answer of it with isAccepted set.
C26_SidesAgree ==
  Quiescent =>
    \A qid \in DOMAIN questions :
      /\ questions[qid].isAnswered <=> questions[qid].acceptedAnswer # Null
      /\ \A a \in DOMAIN answers :
           questions[qid].acceptedAnswer = a
             <=> answers[a].question = qid /\ answers[a].isAccepted

\* ------------------------------------------- deleting the accepted answer
\* C27: a question marked answered names an answer that is not soft-deleted.
C27_AcceptedNotDeleted ==
  \A qid \in DOMAIN questions :
    questions[qid].isAnswered =>
      /\ questions[qid].acceptedAnswer \in DOMAIN answers
      /\ ~answers[questions[qid].acceptedAnswer].isDeleted

\* ------------------------------------------------ PUT /api/users/:id/role
RoleInputs == {"user", "admin", "guest"}     \* req.body.role

\* body('role').isIn(['user', 'admin'])
validRole(role) == role \in {"user", "admin"}

\* The route is behind requireAdmin.
RoleLoad(r, u, uid, role) ==
  /\ req[r].pc = "idle"
  /\ users[u].role = "admin"
  /\ LET q == Start("role", u, uid, role)
         user == findById(users, uid)
     IN  req' = [req EXCEPT ![r] =
           IF ~validRole(role) THEN Respond(q, 400)
           ELSE IF user.id = Null THEN Respond(q, 404)
           ELSE [q EXCEPT !.pc = "save", !.prev = user]]
  /\ UNCHANGED <<users, questions, answers, notifications, pre, last>>

\* user.role = req.body.role; save
RoleSave(r) ==
  /\ req[r].kind = "role" /\ req[r].pc = "save"
  /\ LET q == req[r]
         d == Set(q.prev, "role", q.arg)
     IN  /\ users' = [users EXCEPT ![d.id] = Saved(@, d)]
         /\ req' = [req EXCEPT ![r] =
              Respond([q EXCEPT !.wrote = @ \/ Dirty(d)], 200)]
  /\ UNCHANGED <<questions, answers, notifications, pre, last>>

\* --------------------------------------------- moderation with role changes
ChangeRole(r) ==
  \/ \E u \in Users, uid \in Users \cup {MissingId}, role \in RoleInputs :
       RoleLoad(r, u, uid, role)
  \/ RoleSave(r)

NextRole == Ban("r1") \/ Unban("r1") \/ ChangeRole("r1") \/ FinishNext("r1")

SpecRole == InitBan /\ [][NextRole]_vars

\* C28: no user is both an admin and banned.
C28_NoBannedAdmin ==
  \A u \in Users : users[u].role = "admin" => ~users[u].isBanned

\* ---------------------------------------------------- two edits at once
\* q1 of u1 with the answer a1 (by u2), edited by their authors and by the
\* admin u3 over two connections.
RaceUpdateQuestion(r) ==
  \/ \E u \in {"u1", "u3"}, title \in Titles, description \in Descriptions :
       UpdateQuestionLoad(r, u, "q1",
                          [title |-> title, description |-> description,
                           tags |-> Null, editReason |-> Null], TRUE)
  \/ UpdateQuestionSave(r)

RaceUpdateAnswer(r) ==
  \/ \E u \in {"u2", "u3"}, content \in Contents :
       UpdateAnswerLoad(r, u, "a1", content, Null, TRUE)
  \/ UpdateAnswerSave(r)
  \/ UpdateAnswerRespond(r)

NextEditRace ==
  \E r \in Reqs :
    \/ RaceUpdateQuestion(r)
    \/ RaceUpdateAnswer(r)
    \/ Finish(r)

SpecEditRace == InitVote /\ [][NextEditRace]_vars

\* The history h2 is h1 with one entry added, which holds content.
Appended(h1, h2, content) ==
  /\ Len(h2) = Len(h1) + 1
  /\ SubSeq(h2, 1, Len(h1)) = h1
  /\ h2[Len(h2)].previousContent = content

\* C29: the write of a successful edit adds one entry to the stored edit
\* history, holding the content stored immediately before, and keeps the
\* entries that were there, also when two edits of the record interleave.
C29_HistoryAppendOnly ==
  [][\A r \in Reqs :
       req[r].kind \in UpdateKinds /\ req[r].pc = "save" /\ req'[r].wrote =>
         IF req[r].kind = "updateQuestion"
           THEN LET old == questions[req[r].target]
                IN  Appended(old.editHistory,
                             questions'[req[r].target].editHistory,
                             [title |-> old.title,
                              description |-> old.description,
                              tags |-> old.tags])
           ELSE LET old == answers[req[r].target]
                IN  Appended(old.editHistory,
                             answers'[req[r].target].editHistory,
                             old.content)]_vars

\* ------------------------------------------------ requests on deleted records
\* q1 of u1 with the answer a1 (by u2); u3 votes and answers.  One request
\* at a time.
ClosedVote(r) ==
  \/ \E t \in {"upvote", "invalid"} : VoteQuestionLoad(r, "u3", "q1", t)
  \/ VoteQuestionSave(r)
  \/ VoteQuestionRespond(r)
  \/ \E t \in {"upvote", "invalid"} : VoteAnswerLoad(r, "u3", "a1", t)
  \/ VoteAnswerSave(r)
  \/ VoteAnswerRespond(r)

ClosedUpdate(r) ==
  \/ \E valid \in BOOLEAN :
       UpdateQuestionLoad(r, "u1", "q1",
                          [title |-> "t2", description |-> Null,
                           tags |-> Null, editReason |-> Null], valid)
  \/ UpdateQuestionSave(r)
  \/ \E valid \in BOOLEAN : UpdateAnswerLoad(r, "u2", "a1", "c2", Null, valid)
  \/ UpdateAnswerSave(r)
  \/ UpdateAnswerRespond(r)

ClosedDelete(r) ==
  \/ \E u \in {"u1", "u2"} : DeleteQuestionLoad(r, u, "q1", Null)
  \/ DeleteQuestionSave(r)
  \/ \E u \in {"u1", "u2"}, aid \in DOMAIN answers :
       DeleteAnswerLoad(r, u, aid, Null)
  \/ DeleteAnswerSave(r)

ClosedCreateAnswer(r) ==
  \/ \E len \in ContentLengths : CreateAnswerLoadQuestion(r, "u3", "q1", len)
  \/ CreateAnswerFindExisting(r)
  \/ CreateAnswerSave(r)
  \/ CreateAnswerPopulate(r)
  \/ CreateAnswerNotify(r)

NextClosed ==
  \/ ClosedVote("r1")
  \/ ClosedUpdate("r1")
  \/ ClosedDelete("r1")
  \/ AuthorAccept("r1")
  \/ AuthorUnaccept("r1")
  \/ ClosedCreateAnswer("r1")
  \/ FinishNext("r1")

SpecClosed == InitVoteSeq /\ [][NextClosed]_vars

\* The record the request names was soft-deleted when the request arrived:
\* the question or answer itself, or the question of the answer (accept,
\* unaccept), or the question to be answered.
Closed(q) ==
  /\ q.pc = "done"
  /\ \/ /\ q.kind \in {"voteQuestion", "updateQuestion", "deleteQuestion",
                       "createAnswer"}
        /\ q.target \in DOMAIN pre.questions
        /\ pre.questions[q.target].isDeleted
     \/ /\ q.kind \in {"voteAnswer", "updateAnswer", "deleteAnswer",
                       "accept", "unaccept"}
        /\ q.target \in DOMAIN pre.answers
        /\ pre.answers[q.target].isDeleted
     \/ /\ q.kind \in {"accept", "unaccept"}
        /\ q.target \in DOMAIN pre.answers
        /\ pre.questions[pre.answers[q.target].question].isDeleted

\* The body of the request does not pass the route's validators.
Malformed(q) ==
  \/ q.kind \in VoteKinds /\ q.arg = "invalid"
  \/ q.kind \in UpdateKinds /\ ~q.arg.valid
  \/ q.kind = "createAnswer" /\ q.arg < MinAnswerLength

\* What was soft-deleted when the request arrived is soft-deleted still.
StaysDeleted ==
  /\ \A id \in DOMAIN pre.questions :
       pre.questions[id].isDeleted => questions[id].isDeleted
  /\ \A id \in DOMAIN pre.answers :
       pre.answers[id].isDeleted => answers[id].isDeleted

\* C30: soft deletion is never undone, and every later vote, edit, delete,
\* accept or unaccept on the deleted record, or accept, unaccept and answer
\* creation on a deleted question, returns 404 and changes nothing.
C30_ClosedToRequests ==
  /\ StaysDeleted
  /\ \A r \in Reqs :
       Closed(req[r]) => req[r].status = 404 /\ Snapshot = pre

\* C30, amended: the same for requests with a well-formed body; a request
\* that fails validation returns 400 and changes nothing either.
C30_ClosedToWellFormed ==
  /\ StaysDeleted
  /\ \A r \in Reqs :
       Closed(req[r]) =>
         /\ req[r].status = IF Malformed(req[r]) THEN 400 ELSE 404
         /\ Snapshot = pre

\* An accept of a live answer whose question is soft-deleted returned 404.
C30_Witness ==
  \E r \in Reqs :
    /\ Closed(req[r]) /\ req[r].kind = "accept" /\ req[r].status = 404
    /\ ~answers[req[r].target].isDeleted
    /\ questions[answers[req[r].target].question].isDeleted
    /\ \E a \in DOMAIN answers : answers[a].upvotes # <<>>

====
